---- MODULE Spec2Model ----
(***************************************************************************)
(* A model of oxpg, a PostgreSQL client binding for Python built on        *)
(* tokio_postgres and pyo3: connect(), the parameter marshaler             *)
(* (extract_params, refine_params, ToSql for OwnedParam), the statement    *)
(* pipelines of Client::query and Client::execute, alone and with two      *)
(* calls in flight, the row decoder row_to_dict, and the conversion of an  *)
(* OxpgError to an exception of the module's classes.                      *)
(*                                                                         *)
(* Option<T> is a sequence of length 0 (None) or 1 (Some).                 *)
(***************************************************************************)
EXTENDS Integers, Sequences, FiniteSets, TLC

VARIABLES
    \* ---- connect() ----
    cpc,              \* position inside connect()
    cargs,            \* the arguments of the running connect() call
    config,           \* the tokio_postgres Config being built, as an Option
    cerr,             \* the PyErr connect() returned, as an Option
    client,           \* the Client connect() returned, as an Option
    runtimesCreated,  \* how many times Runtime::new() succeeded
    connectAttempts,  \* how many times config.connect() was awaited
    connTasks,        \* how many connection futures were spawned on the runtime
    \* ---- the parameter marshaler ----
    ppc,              \* position in extract_params / refine_params
    pargs,            \* the host arguments (the PyTuple)
    extracted,        \* the PyResult<Vec<OwnedParam>> of extract_params, as an Option
    stmtParams,       \* statement.params(): the declared parameter types, as an Option
    refined,          \* owned_params after refine_params, as an Option
    \* ---- Client::query ----
    qpc,              \* position of the call in Client::query
    qsql,             \* the SQL text of the call, as what the server makes of it
    qargs,            \* the host arguments of the call
    owned_params,     \* owned_params, moved into the future
    statement,        \* the Statement prepare returned, as an Option
    bound,            \* what to_sql wrote for each parameter, as an Option
    rows,             \* the rows client.query returned, as an Option
    qresult,          \* what the call raised or its awaitable resolved to, as an Option
    \* ---- the calls made on one Client, and the interpreter ----
    op,               \* the method of the running call: "query", "execute" or "none"
    prior,            \* how the previous call on the Client ended: "ok", "failed" or "none"
    gil,              \* the thread attached to the interpreter: "python", "worker" or "free"
    \* ---- calls of Client::query in flight together ----
    calls,            \* the position and the locals of the future of each call
    inflight,         \* the requests sent on the connection and not yet answered, oldest first
    nextStmt,         \* the driver's counter of statement names
    stmts,            \* the statements the server holds prepared, by name
    \* ---- errors.rs: an error on its way to the caller ----
    epc,              \* "idle", "made" (an OxpgError), "raised" (a PyErr) or "handled"
    oxerr,            \* the OxpgError, as an Option
    pyerr,            \* the PyErr made from it, as an Option
    handler,          \* the class named by the except clause of the caller, as an Option
    caught,           \* whether that clause caught the PyErr
    \* ---- the requests of the running call ----
    prepareReqs,      \* how many prepare requests the call has issued
    executeReqs,      \* how many execute requests the call has issued
    \* ---- the connection future spawned by connect() ----
    connTask,         \* "none", "running", or "failed" once `connection.await` gave an error
    logged            \* how many "Connection error" lines were written to stderr

connVars == <<cpc, cargs, config, cerr, client, runtimesCreated, connectAttempts, connTasks>>

paramVars == <<ppc, pargs, extracted, stmtParams, refined>>

queryVars == <<qpc, qsql, qargs, owned_params, statement, bound, rows, qresult>>

sessVars == <<op, prior>>

concVars == <<calls, inflight, nextStmt, stmts>>

errVars == <<epc, oxerr, pyerr, handler, caught>>

reqVars == <<prepareReqs, executeReqs>>

taskVars == <<connTask, logged>>

vars == <<connVars, paramVars, queryVars, sessVars, gil, concVars, errVars, reqVars, taskVars>>

\* What the steps of connect() leave alone, and what the marshaler does.
notConnVars == <<paramVars, queryVars, sessVars, concVars, errVars, reqVars>>
notParamVars == <<connVars, queryVars, sessVars, gil, concVars, errVars, reqVars, taskVars>>
notQueryVars == <<connVars, paramVars, concVars, errVars, taskVars>>
notConcVars == <<connVars, paramVars, queryVars, sessVars, errVars, reqVars, taskVars>>
notErrVars == <<connVars, paramVars, queryVars, sessVars, gil, concVars, reqVars, taskVars>>

None == << >>
Some(x) == <<x>>
IsSome(o) == Len(o) = 1
IsNone(o) == Len(o) = 0
Unwrap(o) == o[1]

(***************************************************************************)
(* errors.rs                                                               *)
(***************************************************************************)
ErrorKinds ==
    { "MissingParameter", "InvalidParameter", "InvalidDsn", "ConnectionFailed",
      "RuntimeFailed", "QueryFailed", "ExecutionError", "UnsupportedType",
      "DataConversionError", "Unexpected" }

\* An OxpgError: its variant and the text it carries.  idx, name and oid are
\* the values formatted into the text (-1, "" and 0 when the text has none),
\* and detail is the driver error formatted into it with {:?} ("" when none).
OxpgError(kind, text) ==
    [kind |-> kind, text |-> text, idx |-> -1, name |-> "", oid |-> 0, detail |-> ""]

OxpgErrorAt(kind, text, idx, name, oid) ==
    [kind |-> kind, text |-> text, idx |-> idx, name |-> name, oid |-> oid, detail |-> ""]

OxpgErrorOf(kind, text, e) ==
    [kind |-> kind, text |-> text, idx |-> -1, name |-> "", oid |-> 0, detail |-> e]

\* impl From<OxpgError> for PyErr: the exception class of each variant.
PyErrClass_connection_as_interface(kind) ==
    CASE kind \in {"MissingParameter", "InvalidParameter", "InvalidDsn",
                   "ConnectionFailed"}                      -> "InterfaceError"
      [] kind = "RuntimeFailed"                             -> "OperationalError"
      [] kind \in {"QueryFailed", "ExecutionError"}         -> "DatabaseError"
      [] kind \in {"UnsupportedType", "DataConversionError"} -> "DataError"
      [] kind = "Unexpected"                                -> "InternalError"

PyErrClass_data_as_database(kind) ==
    CASE kind \in {"MissingParameter", "InvalidParameter", "InvalidDsn"} -> "InterfaceError"
      [] kind \in {"ConnectionFailed", "RuntimeFailed"}                 -> "OperationalError"
      [] kind \in {"QueryFailed", "ExecutionError", "UnsupportedType"}  -> "DatabaseError"
      [] kind = "DataConversionError"                                  -> "DataError"
      [] kind = "Unexpected"                                           -> "InternalError"

PyErrClass(kind) ==
    CASE kind = "MissingParameter"    -> "InterfaceError"
      [] kind = "InvalidParameter"    -> "InterfaceError"
      [] kind = "InvalidDsn"          -> "InterfaceError"
      [] kind = "ConnectionFailed"    -> "OperationalError"
      [] kind = "RuntimeFailed"       -> "OperationalError"
      [] kind = "QueryFailed"         -> "DatabaseError"
      [] kind = "ExecutionError"      -> "DatabaseError"
      [] kind = "UnsupportedType"     -> "DataError"
      [] kind = "DataConversionError" -> "DataError"
      [] kind = "Unexpected"          -> "InternalError"

\* The PyErr built from an OxpgError: the class, and as message the text the
\* variant carries (new_err(msg)).
PyErrFrom(err) ==
    [class |-> PyErrClass(err.kind), kind |-> err.kind, msg |-> err.text,
     idx |-> err.idx, name |-> err.name, oid |-> err.oid, detail |-> err.detail]

\* #[error("...: {0}")] (lines 8-29): what the derived Display writes before
\* the text the variant carries.
DisplayPrefix(kind) ==
    CASE kind = "MissingParameter"    -> "Missing required parameter: "
      [] kind = "InvalidParameter"    -> "Invalid parameter value: "
      [] kind = "InvalidDsn"          -> "Invalid DSN: "
      [] kind = "ConnectionFailed"    -> "Connection failed: "
      [] kind = "RuntimeFailed"       -> "Runtime failed: "
      [] kind = "QueryFailed"         -> "Query failed: "
      [] kind = "ExecutionError"      -> "Database execution failed: "
      [] kind = "UnsupportedType"     -> "Unsupported Python type: "
      [] kind = "DataConversionError" -> "Data conversion failed: "
      [] kind = "Unexpected"          -> "Unexpected error: "

\* A text as the pieces it was put together from, in order.
\* OxpgError::to_string(): the prefix of the variant, then its text.
Display(err) == <<DisplayPrefix(err.kind), err.text>>

\* The message of the exception raised for a PyErr: the class name, then the
\* argument new_err was given (lines 46-61), which is the text of the variant
\* alone.
PyErrMessage(e) == <<e.class, ": ", e.msg>>

\* The text has the piece t.  No text of the driver and no class name has
\* one of the prefixes of DisplayPrefix inside it.
Contains(pieces, t) == \E i \in DOMAIN pieces : pieces[i] = t

\* The configuration category of the error taxonomy.
ConfigurationKinds == {"MissingParameter", "InvalidParameter", "InvalidDsn"}

\* create_exception! (lines 32-42): the exception classes and the class each
\* derives from.
ExceptionClasses ==
    {"Error", "InterfaceError", "DatabaseError", "DataError", "OperationalError", "InternalError"}

BaseClass_interface_under_database(class) ==
    CASE class = "Error"            -> "PyException"
      [] class = "InterfaceError"   -> "DatabaseError"
      [] class = "DatabaseError"    -> "Error"
      [] class = "DataError"        -> "DatabaseError"
      [] class = "OperationalError" -> "DatabaseError"
      [] class = "InternalError"    -> "DatabaseError"

BaseClass(class) ==
    CASE class = "Error"            -> "PyException"
      [] class = "InterfaceError"   -> "Error"
      [] class = "DatabaseError"    -> "Error"
      [] class = "DataError"        -> "DatabaseError"
      [] class = "OperationalError" -> "DatabaseError"
      [] class = "InternalError"    -> "DatabaseError"

\* isinstance(e, of) for an exception e of the class: the class itself or a
\* class it derives from.
RECURSIVE IsInstance(_, _)
IsInstance(class, of) ==
    \/ class = of
    \/ class \in ExceptionClasses /\ IsInstance(BaseClass(class), of)

\* The texts the variants are made with.
ErrTexts ==
    { "host", "Cannot specify both DSN and individual connection parameters",
      "invalid connection string", "Failed to connect to PostgreSQL: {:?}",
      "Error while executing query: {:?}", "" }

ErrInputs == { OxpgError(k, t) : k \in ErrorKinds, t \in ErrTexts }

(***************************************************************************)
(* client/config.rs                                                        *)
(***************************************************************************)
DefaultPort == 5432

\* What the driver's parser makes of a DSN text: a parse error, or a Config
\* with its hosts (Tcp or Unix), ports, user and dbname.
DsnSamples ==
    { [parse |-> "err", hosts |-> << >>, ports |-> << >>, user |-> None, dbname |-> None],
      [parse |-> "ok", hosts |-> <<[kind |-> "Tcp", name |-> "localhost"]>>,
       ports |-> <<6543>>, user |-> Some("u"), dbname |-> Some("db")],
      [parse |-> "ok", hosts |-> <<[kind |-> "Tcp", name |-> "localhost"]>>,
       ports |-> << >>, user |-> Some("u"), dbname |-> Some("db")],
      [parse |-> "ok", hosts |-> <<[kind |-> "Tcp", name |-> "h1"], [kind |-> "Tcp", name |-> "h2"]>>,
       ports |-> <<6543, 6544>>, user |-> Some("u"), dbname |-> Some("db")],
      [parse |-> "ok", hosts |-> <<[kind |-> "Unix", name |-> "/var/run/postgresql"]>>,
       ports |-> << >>, user |-> Some("u"), dbname |-> Some("db")],
      [parse |-> "ok", hosts |-> << >>,
       ports |-> << >>, user |-> Some("u"), dbname |-> Some("db")],
      [parse |-> "ok", hosts |-> <<[kind |-> "Tcp", name |-> "localhost"]>>,
       ports |-> << >>, user |-> None, dbname |-> Some("db")],
      [parse |-> "ok", hosts |-> <<[kind |-> "Tcp", name |-> "localhost"]>>,
       ports |-> << >>, user |-> Some("u"), dbname |-> None],
      [parse |-> "ok", hosts |-> <<[kind |-> "Unix", name |-> "/var/run/postgresql"]>>,
       ports |-> << >>, user |-> None, dbname |-> Some("db")],
      [parse |-> "ok", hosts |-> <<[kind |-> "Tcp", name |-> "localhost"]>>,
       ports |-> << >>, user |-> None, dbname |-> None],
      [parse |-> "ok", hosts |-> << >>,
       ports |-> << >>, user |-> None, dbname |-> None] }

Ok(v) == [ok |-> TRUE, val |-> v]
Err(e) == [ok |-> FALSE, err |-> e]

\* validate_connect_params: Err(OxpgError) or Ok(()).
validate_connect_params_dsn_wins(dsn, host, user, password) ==
    IF IsNone(dsn)
    THEN IF IsNone(host) THEN Err(OxpgError("MissingParameter", "host"))
         ELSE IF IsNone(user) THEN Err(OxpgError("MissingParameter", "user"))
         ELSE IF IsNone(password) THEN Err(OxpgError("MissingParameter", "password"))
         ELSE Ok("unit")
    ELSE Ok("unit")

validate_connect_params_password_first(dsn, host, user, password) ==
    IF IsSome(dsn) /\ (IsSome(host) \/ IsSome(user) \/ IsSome(password))
    THEN Err(OxpgError("InvalidParameter",
                       "Cannot specify both DSN and individual connection parameters"))
    ELSE IF IsNone(dsn)
    THEN IF IsNone(password) THEN Err(OxpgError("MissingParameter", "password"))
         ELSE IF IsNone(user) THEN Err(OxpgError("MissingParameter", "user"))
         ELSE IF IsNone(host) THEN Err(OxpgError("MissingParameter", "host"))
         ELSE Ok("unit")
    ELSE Ok("unit")

validate_connect_params(dsn, host, user, password) ==
    IF IsSome(dsn) /\ (IsSome(host) \/ IsSome(user) \/ IsSome(password))
    THEN Err(OxpgError("InvalidParameter",
                       "Cannot specify both DSN and individual connection parameters"))
    ELSE IF IsNone(dsn)
    THEN IF IsNone(host) THEN Err(OxpgError("MissingParameter", "host"))
         ELSE IF IsNone(user) THEN Err(OxpgError("MissingParameter", "user"))
         ELSE IF IsNone(password) THEN Err(OxpgError("MissingParameter", "password"))
         ELSE Ok("unit")
    ELSE Ok("unit")

\* extract_host_from_dsn: Err(OxpgError), or Ok of the fields of the Client
\* together with the parsed Config.
\* An extract_host_from_dsn that takes the first host whatever its kind.
extract_host_from_dsn_any_host_kind(dsn) ==
    IF dsn.parse = "err" THEN Err(OxpgError("InvalidDsn", "<driver parse error>"))
    ELSE IF dsn.hosts = << >> THEN Err(OxpgError("MissingParameter", "host"))
    ELSE IF IsNone(dsn.user) THEN Err(OxpgError("MissingParameter", "user"))
    ELSE IF IsNone(dsn.dbname) THEN Err(OxpgError("MissingParameter", "database"))
    ELSE Ok([host |-> dsn.hosts[1].name,
             user |-> Unwrap(dsn.user),
             port |-> IF dsn.ports = << >> THEN DefaultPort ELSE dsn.ports[1],
             db   |-> Unwrap(dsn.dbname),
             config |-> [hosts |-> dsn.hosts, ports |-> dsn.ports,
                         user |-> dsn.user, dbname |-> dsn.dbname]])

extract_host_from_dsn(dsn) ==
    IF dsn.parse = "err" THEN Err(OxpgError("InvalidDsn", "<driver parse error>"))
    ELSE IF dsn.hosts = << >> \/ dsn.hosts[1].kind # "Tcp"
    THEN Err(OxpgError("MissingParameter", "host"))
    ELSE IF IsNone(dsn.user) THEN Err(OxpgError("MissingParameter", "user"))
    ELSE IF IsNone(dsn.dbname) THEN Err(OxpgError("MissingParameter", "database"))
    ELSE Ok([host |-> dsn.hosts[1].name,
             user |-> Unwrap(dsn.user),
             port |-> IF dsn.ports = << >> THEN DefaultPort ELSE dsn.ports[1],
             db   |-> Unwrap(dsn.dbname),
             config |-> [hosts |-> dsn.hosts, ports |-> dsn.ports,
                         user |-> dsn.user, dbname |-> dsn.dbname]])

\* populate_config_from_params: the Config built from the discrete fields.
populate_config_from_params(host, user, password, port, db) ==
    [hosts |-> <<[kind |-> "Tcp", name |-> host]>>, ports |-> <<port>>,
     user |-> Some(user), dbname |-> Some(db)]

(***************************************************************************)
(* client/mod.rs: connect()                                                *)
(***************************************************************************)
OptStr(s) == {None, Some(s)}

ConnectArgs ==
    [dsn : {None} \cup {Some(d) : d \in DsnSamples},
     host : OptStr("db.local"), user : OptStr("app"), password : OptStr("pw"),
     port : {DefaultPort, 6000}, db : {"postgres"}]

ParamInit ==
    /\ ppc = "idle"
    /\ pargs = << >>
    /\ extracted = None
    /\ stmtParams = None
    /\ refined = None

ConnInit ==
    /\ cpc = "idle"
    /\ cargs = None
    /\ config = None
    /\ cerr = None
    /\ client = None
    /\ runtimesCreated = 0
    /\ connectAttempts = 0
    /\ connTasks = 0

QueryInit ==
    /\ qpc = "idle"
    /\ qsql = None
    /\ qargs = << >>
    /\ owned_params = << >>
    /\ statement = None
    /\ bound = None
    /\ rows = None
    /\ qresult = None

\* No call has been made on a Client yet; the thread that calls into the
\* module is attached to the interpreter.
SessInit ==
    /\ op = "none"
    /\ prior = "none"
    /\ gil = "python"

\* The calls that are made together on one Client.
Calls == {1, 2}

\* The future of a call that was not made yet.
NoCall ==
    [pc |-> "idle", sql |-> None, args |-> << >>, owned_params |-> << >>,
     statement |-> None, bound |-> None, rows |-> None, result |-> None,
     prepares |-> 0, executes |-> 0]

ConcInit ==
    /\ calls = [id \in Calls |-> NoCall]
    /\ inflight = << >>
    /\ nextStmt = 0
    /\ stmts = {}

ErrInit ==
    /\ epc = "idle"
    /\ oxerr = None
    /\ pyerr = None
    /\ handler = None
    /\ caught = FALSE

\* No connection future was spawned yet.
TaskInit ==
    /\ connTask = "none"
    /\ logged = 0

ReqInit ==
    /\ prepareReqs = 0
    /\ executeReqs = 0

Init ==
    ConnInit /\ ParamInit /\ QueryInit /\ SessInit /\ ConcInit /\ ErrInit /\ ReqInit /\ TaskInit

ConnFail(e) ==
    /\ cpc' = "failed"
    /\ cerr' = Some(PyErrFrom(e))

\* connect() is entered and validates its arguments (mod.rs line 132).
ConnectValidate ==
    /\ cpc = "idle"
    /\ \E a \in ConnectArgs :
         /\ cargs' = Some(a)
         /\ LET r == validate_connect_params(a.dsn, a.host, a.user, a.password) IN
              IF r.ok
              THEN /\ cpc' = "validated"
                   /\ cerr' = cerr
              ELSE ConnFail(r.err)
    /\ UNCHANGED <<config, client, runtimesCreated, connectAttempts, connTasks, gil>>
    /\ UNCHANGED <<notConnVars, taskVars>>

\* The match on dsn (mod.rs lines 134-154): the DSN is parsed into the Config,
\* or the Config is populated from the discrete fields.
ConnectConfigure ==
    /\ cpc = "validated"
    /\ LET a == Unwrap(cargs) IN
         IF IsSome(a.dsn)
         THEN LET r == extract_host_from_dsn(Unwrap(a.dsn)) IN
                IF r.ok
                THEN /\ config' = Some(r.val)
                     /\ cpc' = "configured"
                     /\ cerr' = cerr
                ELSE /\ config' = config
                     /\ ConnFail(r.err)
         ELSE IF IsNone(a.host)
              THEN config' = config /\ ConnFail(OxpgError("MissingParameter", "host"))
         ELSE IF IsNone(a.user)
              THEN config' = config /\ ConnFail(OxpgError("MissingParameter", "user"))
         ELSE IF IsNone(a.password)
              THEN config' = config /\ ConnFail(OxpgError("MissingParameter", "password"))
         ELSE /\ config' = Some([host |-> Unwrap(a.host), user |-> Unwrap(a.user),
                                 port |-> a.port, db |-> a.db,
                                 config |-> populate_config_from_params(
                                     Unwrap(a.host), Unwrap(a.user), Unwrap(a.password),
                                     a.port, a.db)])
              /\ cpc' = "configured"
              /\ cerr' = cerr
    /\ UNCHANGED <<cargs, client, runtimesCreated, connectAttempts, connTasks, gil>>
    /\ UNCHANGED <<notConnVars, taskVars>>

\* Runtime::new() (mod.rs lines 156-161): the runtime is created, or its
\* creation fails with RuntimeFailed.  With the runtime the call enters
\* py.detach (line 164), which detaches the thread from the interpreter, and
\* blocks in block_on until the connect attempt ends.
ConnectRuntime_block_on_attached ==
    /\ cpc = "configured"
    /\ \/ /\ runtimesCreated' = runtimesCreated + 1
          /\ cpc' = "runtime"
          /\ cerr' = cerr
       \/ /\ runtimesCreated' = runtimesCreated
          /\ ConnFail(OxpgError("RuntimeFailed", "Failed to create Tokio runtime: <io error>"))
    /\ UNCHANGED <<cargs, config, client, connectAttempts, connTasks, gil>>
    /\ UNCHANGED <<notConnVars, taskVars>>

ConnectRuntime ==
    /\ cpc = "configured"
    /\ \/ /\ runtimesCreated' = runtimesCreated + 1
          /\ cpc' = "runtime"
          /\ cerr' = cerr
          /\ gil' = "free"
       \/ /\ runtimesCreated' = runtimesCreated
          /\ ConnFail(OxpgError("RuntimeFailed", "Failed to create Tokio runtime: <io error>"))
          /\ gil' = gil
    /\ UNCHANGED <<cargs, config, client, connectAttempts, connTasks>>
    /\ UNCHANGED <<notConnVars, taskVars>>

\* config.connect(NoTls) driven by runtime.block_on (mod.rs lines 163-170):
\* one attempt, which yields the (client, connection) pair or fails; the
\* closure of py.detach returns and the thread is attached again.
ConnectDriver_retries ==
    /\ cpc = "runtime"
    /\ connectAttempts' = connectAttempts + 1
    /\ \/ /\ cpc' = "connected"
          /\ cerr' = cerr
          /\ gil' = "python"
       \/ /\ connectAttempts = 0
          /\ UNCHANGED <<cpc, cerr, gil>>
       \/ /\ connectAttempts > 0
          /\ gil' = "python"
          /\ ConnFail(OxpgError("ConnectionFailed", "Failed to connect to PostgreSQL: <driver error>"))
    /\ UNCHANGED <<cargs, config, client, runtimesCreated, connTasks>>
    /\ UNCHANGED <<notConnVars, taskVars>>

ConnectDriver ==
    /\ cpc = "runtime"
    /\ connectAttempts' = connectAttempts + 1
    /\ gil' = "python"
    /\ \/ /\ cpc' = "connected"
          /\ cerr' = cerr
       \/ ConnFail(OxpgError("ConnectionFailed", "Failed to connect to PostgreSQL: <driver error>"))
    /\ UNCHANGED <<cargs, config, client, runtimesCreated, connTasks>>
    /\ UNCHANGED <<notConnVars, taskVars>>

\* The connection future is spawned on the runtime and the Client is returned
\* (mod.rs lines 172-186).
ConnectReturn ==
    /\ cpc = "connected"
    /\ connTasks' = connTasks + 1
    /\ LET c == Unwrap(config) IN
         client' = Some([host |-> c.host, port |-> c.port, db |-> c.db, user |-> c.user])
    /\ cpc' = "done"
    /\ connTask' = "running"
    /\ UNCHANGED <<cargs, config, cerr, runtimesCreated, connectAttempts, gil, logged>>
    /\ UNCHANGED notConnVars

ConnNext ==
    \/ ConnectValidate
    \/ ConnectConfigure
    \/ ConnectRuntime
    \/ ConnectDriver
    \/ ConnectReturn

SpecConnect == Init /\ [][ConnNext]_vars

(***************************************************************************)
(* errors.rs: every OxpgError converted and caught                         *)
(***************************************************************************)
\* An OxpgError of any variant was made and is about to be returned.
ErrMadeInit ==
    /\ ConnInit /\ ParamInit /\ QueryInit /\ SessInit /\ ConcInit /\ ReqInit /\ TaskInit
    /\ epc = "made"
    /\ oxerr \in {Some(e) : e \in ErrInputs}
    /\ pyerr = None
    /\ handler = None
    /\ caught = FALSE

\* PyErr::from(err) (lines 44-63).
ErrConvert ==
    /\ epc = "made"
    /\ pyerr' = Some(PyErrFrom(Unwrap(oxerr)))
    /\ epc' = "raised"
    /\ UNCHANGED <<oxerr, handler, caught>>
    /\ UNCHANGED notErrVars

\* The caller's `except <class>` meets the exception.
ErrCatch ==
    /\ epc = "raised"
    /\ \E h \in ExceptionClasses :
         /\ handler' = Some(h)
         /\ caught' = IsInstance(Unwrap(pyerr).class, h)
    /\ epc' = "handled"
    /\ UNCHANGED <<oxerr, pyerr>>
    /\ UNCHANGED notErrVars

ErrNext ==
    \/ ErrConvert
    \/ ErrCatch

SpecErrors == ErrMadeInit /\ [][ErrNext]_vars

(***************************************************************************)
(* Properties of connect()                                                 *)
(***************************************************************************)
ConnCalled == IsSome(cargs)

DsnWithDiscrete(a) ==
    IsSome(a.dsn) /\ (IsSome(a.host) \/ IsSome(a.user) \/ IsSome(a.password))

\* The first absent field in the order host, user, password.
FirstAbsent(a) ==
    IF IsNone(a.host) THEN "host" ELSE IF IsNone(a.user) THEN "user" ELSE "password"

\* C1: connect() called with a dsn together with any of host, user or password
\* has failed with InvalidParameter, and neither a runtime was created nor a
\* driver connect attempted, nor a Client returned.
C1_DsnWithDiscreteRejected ==
    (ConnCalled /\ DsnWithDiscrete(Unwrap(cargs))) =>
        /\ cpc = "failed"
        /\ IsSome(cerr)
        /\ Unwrap(cerr).kind = "InvalidParameter"
        /\ Unwrap(cerr).class = "InterfaceError"
        /\ runtimesCreated = 0
        /\ connectAttempts = 0
        /\ connTasks = 0
        /\ client = None

C1_Witness ==
    /\ ConnCalled
    /\ IsSome(Unwrap(cargs).dsn) /\ IsSome(Unwrap(cargs).host)
    /\ IsNone(Unwrap(cargs).user) /\ IsNone(Unwrap(cargs).password)
    /\ cpc = "failed"

\* C2: connect() called without a dsn and with one of host, user, password
\* absent has failed with MissingParameter naming the first absent field in
\* the order host, user, password, with no runtime created and no driver
\* connect attempted.
C2_IncompleteDiscreteRejected ==
    (/\ ConnCalled
     /\ IsNone(Unwrap(cargs).dsn)
     /\ \/ IsNone(Unwrap(cargs).host)
        \/ IsNone(Unwrap(cargs).user)
        \/ IsNone(Unwrap(cargs).password)) =>
        /\ cpc = "failed"
        /\ IsSome(cerr)
        /\ Unwrap(cerr).kind = "MissingParameter"
        /\ Unwrap(cerr).msg = FirstAbsent(Unwrap(cargs))
        /\ runtimesCreated = 0
        /\ connectAttempts = 0
        /\ client = None

C2_Witness ==
    /\ ConnCalled
    /\ IsNone(Unwrap(cargs).dsn)
    /\ IsSome(Unwrap(cargs).host) /\ IsNone(Unwrap(cargs).user) /\ IsNone(Unwrap(cargs).password)
    /\ cpc = "failed"
    /\ Unwrap(cerr).msg = "user"

\* C3: when the arguments passed validation and DSN extraction and the
\* driver's connect attempt failed, connect() has failed with ConnectionFailed
\* (OperationalError), not with an error of the configuration category, and
\* returned no Client.
C3_DriverFailureIsConnectionError ==
    (cpc = "failed" /\ connectAttempts > 0) =>
        /\ IsSome(config)
        /\ IsSome(cerr)
        /\ Unwrap(cerr).kind = "ConnectionFailed"
        /\ Unwrap(cerr).class = "OperationalError"
        /\ Unwrap(cerr).kind \notin ConfigurationKinds
        /\ PyErrClass(Unwrap(cerr).kind) \notin {PyErrClass(k) : k \in ConfigurationKinds}
        /\ client = None
        /\ connTasks = 0

C3_Witness ==
    /\ cpc = "failed"
    /\ connectAttempts = 1
    /\ IsSome(Unwrap(cargs).dsn)
    /\ Unwrap(cerr).kind = "ConnectionFailed"

(***************************************************************************)
(* client/conversions.rs: the parameter marshaler                          *)
(*                                                                         *)
(* Integers are two's complement numbers written as sequences of 16-bit    *)
(* words, most significant first: an i16 is one word, an i32 two, an i64   *)
(* four.  A Python int, which is unbounded, is written with five words.    *)
(***************************************************************************)
WordMax == 65535
SignBit == 32768

SeqsUpTo(S, n) == UNION {[1..k -> S] : k \in 0..n}

\* The word that extends the sign of a number whose top word is w.
SignWord(w) == IF w >= SignBit THEN WordMax ELSE 0

RECURSIVE SignExtend(_, _)
SignExtend(ws, n) == IF Len(ws) >= n THEN ws ELSE SignExtend(<<SignWord(ws[1])>> \o ws, n)

\* Two numbers of any widths are numerically equal.
NumEq(a, b) ==
    LET n == IF Len(a) > Len(b) THEN Len(a) ELSE Len(b)
    IN SignExtend(a, n) = SignExtend(b, n)

\* Rust's `as` cast to a narrower integer keeps the low bits.
LowWords(ws, n) == SubSeq(ws, Len(ws) - n + 1, Len(ws))

\* A number of five words fits i64 when its top word is only sign.
FitsI64(ws) == ws[1] = SignWord(ws[2])

\* The Python classes an object of each type is an instance of, among those
\* extract_params tests (bool subclasses int, datetime subclasses date).
PyInstanceOf(ty) ==
    CASE ty = "bool"     -> {"bool", "int"}
      [] ty = "datetime" -> {"datetime", "date"}
      [] OTHER           -> {ty}

PyInts ==
    { <<0, 0, 0, 0, 7>>,                                  \* 7
      <<WordMax, WordMax, WordMax, WordMax, WordMax>>,    \* -1
      <<0, 0, 0, 0, 32767>>,                              \* i16::MAX
      <<0, 0, 0, 0, 32768>>,                              \* i16::MAX + 1
      <<WordMax, WordMax, WordMax, WordMax, 32767>>,      \* i16::MIN - 1
      <<0, 0, 0, 32767, WordMax>>,                        \* i32::MAX
      <<0, 0, 0, 32768, 0>>,                              \* i32::MAX + 1
      <<0, 0, 1, 0, 5>>,                                  \* 2^32 + 5
      <<0, 32768, 0, 0, 0>> }                             \* i64::MAX + 1

\* A host object: its Python type and its value, held in the field of the
\* value's sort (b a boolean, n a sequence of numbers, s a text).
PyObj(ty, b, n, s) == [ty |-> ty, b |-> b, n |-> n, s |-> s]

\* The host arguments: objects of every supported type, of the types that
\* subclass one, and of unsupported types.  A datetime holds its wall clock
\* in s and whether it has a tzinfo in b; a timedelta holds its days, seconds
\* and microseconds in n.
HostValues ==
    { PyObj("bool", TRUE, << >>, ""),
      PyObj("float", FALSE, << >>, "1.5"),
      PyObj("float", FALSE, << >>, "0.1"),
      PyObj("str", FALSE, << >>, "abc"),
      PyObj("NoneType", FALSE, << >>, ""),
      PyObj("bytes", FALSE, << >>, "\\x01\\x02"),
      PyObj("bytearray", FALSE, << >>, "\\x01\\x02"),
      PyObj("datetime", FALSE, << >>, "2024-01-02 03:04:05"),
      PyObj("datetime", TRUE, << >>, "2024-01-02 03:04:05"),
      PyObj("date", FALSE, << >>, "2024-01-02"),
      PyObj("time", FALSE, << >>, "03:04:05"),
      PyObj("timedelta", FALSE, <<1, 2, 3>>, ""),
      PyObj("list", FALSE, << >>, "[1]"),
      PyObj("Decimal", FALSE, << >>, "1.10") }
    \cup { PyObj("int", FALSE, n, "") : n \in PyInts }

\* An OwnedParam: its variant and the value it holds, in the field of the
\* value's sort.  A null variant holds nothing.
OwnedParam(tag, b, n, s) == [tag |-> tag, b |-> b, n |-> n, s |-> s]

NullParam(tag) == OwnedParam(tag, FALSE, << >>, "")

NullTags ==
    { "NullBool", "NullI16", "NullI32", "NullI64", "NullF32", "NullF64", "NullText",
      "NullBytes", "NullDate", "NullTime", "NullTimestamp", "NullTimestampTz", "NullUuid" }

\* One turn of the loop of extract_params on the argument at 0-based idx:
\* Ok(OwnedParam) or Err(OxpgError).
extract_one_coerce_unknown(idx, arg) ==
    LET is == PyInstanceOf(arg.ty) IN
    IF "bool" \in is THEN Ok(OwnedParam("Bool", arg.b, << >>, ""))
    ELSE IF "int" \in is THEN
        IF FitsI64(arg.n) THEN Ok(OwnedParam("I64", FALSE, LowWords(arg.n, 4), ""))
        ELSE Err(OxpgErrorAt("InvalidParameter", "Int arg", idx, "", 0))
    ELSE IF "NoneType" \in is THEN Ok(NullParam("NullText"))
    ELSE Ok(OwnedParam("Text", FALSE, << >>, arg.s))

extract_one_int_before_bool(idx, arg) ==
    LET is == PyInstanceOf(arg.ty) IN
    IF "int" \in is THEN
        IF arg.ty = "bool" THEN Ok(OwnedParam("I64", FALSE, <<0, 0, 0, IF arg.b THEN 1 ELSE 0>>, ""))
        ELSE IF FitsI64(arg.n) THEN Ok(OwnedParam("I64", FALSE, LowWords(arg.n, 4), ""))
        ELSE Err(OxpgErrorAt("InvalidParameter", "Int arg", idx, "", 0))
    ELSE IF "float" \in is THEN Ok(OwnedParam("F64", FALSE, << >>, arg.s))
    ELSE IF "str" \in is THEN Ok(OwnedParam("Text", FALSE, << >>, arg.s))
    ELSE IF "NoneType" \in is THEN Ok(NullParam("NullText"))
    ELSE IF "bytes" \in is \/ "bytearray" \in is THEN Ok(OwnedParam("Bytes", FALSE, << >>, arg.s))
    ELSE IF "datetime" \in is THEN
        IF arg.b
        THEN Err(OxpgErrorAt("InvalidParameter", "DateTime arg", idx, "", 0))
        ELSE Ok(OwnedParam("TimestampTz", FALSE, << >>, arg.s))
    ELSE IF "date" \in is THEN Ok(OwnedParam("Date", FALSE, << >>, arg.s))
    ELSE IF "time" \in is THEN Ok(OwnedParam("Time", FALSE, << >>, arg.s))
    ELSE IF "timedelta" \in is THEN
        Ok(OwnedParam("Interval", FALSE, arg.n, "{} days {} seconds {} microseconds"))
    ELSE Err(OxpgErrorAt("UnsupportedType", "Parameter at index {} is of type '{}', which is not supported",
                         idx, arg.ty, 0))

extract_one(idx, arg) ==
    LET is == PyInstanceOf(arg.ty) IN
    IF "bool" \in is THEN Ok(OwnedParam("Bool", arg.b, << >>, ""))
    ELSE IF "int" \in is THEN
        IF FitsI64(arg.n) THEN Ok(OwnedParam("I64", FALSE, LowWords(arg.n, 4), ""))
        ELSE Err(OxpgErrorAt("InvalidParameter", "Int arg", idx, "", 0))
    ELSE IF "float" \in is THEN Ok(OwnedParam("F64", FALSE, << >>, arg.s))
    ELSE IF "str" \in is THEN Ok(OwnedParam("Text", FALSE, << >>, arg.s))
    ELSE IF "NoneType" \in is THEN Ok(NullParam("NullText"))
    ELSE IF "bytes" \in is \/ "bytearray" \in is THEN Ok(OwnedParam("Bytes", FALSE, << >>, arg.s))
    ELSE IF "datetime" \in is THEN
        IF arg.b
        THEN Err(OxpgErrorAt("InvalidParameter", "DateTime arg", idx, "", 0))
        ELSE Ok(OwnedParam("TimestampTz", FALSE, << >>, arg.s))
    ELSE IF "date" \in is THEN Ok(OwnedParam("Date", FALSE, << >>, arg.s))
    ELSE IF "time" \in is THEN Ok(OwnedParam("Time", FALSE, << >>, arg.s))
    ELSE IF "timedelta" \in is THEN
        Ok(OwnedParam("Interval", FALSE, arg.n, "{} days {} seconds {} microseconds"))
    ELSE Err(OxpgErrorAt("UnsupportedType", "Parameter at index {} is of type '{}', which is not supported",
                         idx, arg.ty, 0))

\* extract_params: the loop over the arguments, returning at the first error.
RECURSIVE extract_from(_, _, _)
extract_from(args, i, params) ==
    IF i > Len(args) THEN Ok(params)
    ELSE LET r == extract_one(i - 1, args[i]) IN
         IF r.ok THEN extract_from(args, i + 1, Append(params, r.val))
         ELSE Err(PyErrFrom(r.err))

extract_params(args) == extract_from(args, 1, << >>)

\* The declared SQL types the driver reports (tokio_postgres::types::Type).
RefinableTypes ==
    { "BOOL", "INT2", "INT4", "INT8", "FLOAT4", "FLOAT8", "BYTEA", "DATE", "TIME",
      "TIMESTAMP", "TIMESTAMPTZ", "UUID" }

Types ==
    RefinableTypes \cup
    { "TEXT", "VARCHAR", "BPCHAR", "NUMERIC", "JSON", "JSONB", "INTERVAL", "INT4RANGE" }

\* `v as f32`: the nearest single-precision value.
AsF32(v) == IF v = "0.1" THEN "0.1f32" ELSE v

\* The match of refine_params on (param, expected).
refine_one_uuid_arm_missing(param, expected) ==
    CASE param.tag = "I64" /\ expected = "INT2" -> OwnedParam("I16", FALSE, LowWords(param.n, 1), "")
      [] param.tag = "I64" /\ expected = "INT4" -> OwnedParam("I32", FALSE, LowWords(param.n, 2), "")
      [] param.tag = "F64" /\ expected = "FLOAT4" -> OwnedParam("F32", FALSE, << >>, AsF32(param.s))
      [] param.tag = "TimestampTz" /\ expected = "TIMESTAMP" ->
            OwnedParam("Timestamp", FALSE, << >>, param.s)
      [] param.tag = "NullText" /\ expected = "BOOL" -> NullParam("NullBool")
      [] param.tag = "NullText" /\ expected = "INT2" -> NullParam("NullI16")
      [] param.tag = "NullText" /\ expected = "INT4" -> NullParam("NullI32")
      [] param.tag = "NullText" /\ expected = "INT8" -> NullParam("NullI64")
      [] param.tag = "NullText" /\ expected = "FLOAT4" -> NullParam("NullF32")
      [] param.tag = "NullText" /\ expected = "FLOAT8" -> NullParam("NullF64")
      [] param.tag = "NullText" /\ expected = "BYTEA" -> NullParam("NullBytes")
      [] param.tag = "NullText" /\ expected = "DATE" -> NullParam("NullDate")
      [] param.tag = "NullText" /\ expected = "TIME" -> NullParam("NullTime")
      [] param.tag = "NullText" /\ expected = "TIMESTAMP" -> NullParam("NullTimestamp")
      [] param.tag = "NullText" /\ expected = "TIMESTAMPTZ" -> NullParam("NullTimestampTz")
      [] OTHER -> param

refine_one(param, expected) ==
    CASE param.tag = "I64" /\ expected = "INT2" -> OwnedParam("I16", FALSE, LowWords(param.n, 1), "")
      [] param.tag = "I64" /\ expected = "INT4" -> OwnedParam("I32", FALSE, LowWords(param.n, 2), "")
      [] param.tag = "F64" /\ expected = "FLOAT4" -> OwnedParam("F32", FALSE, << >>, AsF32(param.s))
      [] param.tag = "TimestampTz" /\ expected = "TIMESTAMP" ->
            OwnedParam("Timestamp", FALSE, << >>, param.s)
      [] param.tag = "NullText" /\ expected = "BOOL" -> NullParam("NullBool")
      [] param.tag = "NullText" /\ expected = "INT2" -> NullParam("NullI16")
      [] param.tag = "NullText" /\ expected = "INT4" -> NullParam("NullI32")
      [] param.tag = "NullText" /\ expected = "INT8" -> NullParam("NullI64")
      [] param.tag = "NullText" /\ expected = "FLOAT4" -> NullParam("NullF32")
      [] param.tag = "NullText" /\ expected = "FLOAT8" -> NullParam("NullF64")
      [] param.tag = "NullText" /\ expected = "BYTEA" -> NullParam("NullBytes")
      [] param.tag = "NullText" /\ expected = "DATE" -> NullParam("NullDate")
      [] param.tag = "NullText" /\ expected = "TIME" -> NullParam("NullTime")
      [] param.tag = "NullText" /\ expected = "TIMESTAMP" -> NullParam("NullTimestamp")
      [] param.tag = "NullText" /\ expected = "TIMESTAMPTZ" -> NullParam("NullTimestampTz")
      [] param.tag = "NullText" /\ expected = "UUID" -> NullParam("NullUuid")
      [] OTHER -> param

\* refine_params: every position the statement declares a type for is rewritten
\* by the match; the positions beyond statement.params() are skipped.
refine_params_stops_at_declared(params, declared) ==
    [i \in {j \in DOMAIN params : j <= Len(declared)} |-> refine_one(params[i], declared[i])]

refine_params(params, declared) ==
    [i \in DOMAIN params |->
        IF i <= Len(declared) THEN refine_one(params[i], declared[i]) ELSE params[i]]

\* impl ToSql for OwnedParam: what to_sql writes for a parameter bound against
\* the declared type ty.  Every arm hands over to the ToSql of the value the
\* variant holds, which writes that value in its own width and format
\* whatever ty is; a null variant writes nothing and reports IsNull::Yes.
\* accepts() is true for every type, so to_sql_checked never refuses.
WireFormat(tag) ==
    CASE tag = "Bool" -> "bool"
      [] tag = "I16" -> "int2"
      [] tag = "I32" -> "int4"
      [] tag = "I64" -> "int8"
      [] tag = "F32" -> "float4"
      [] tag = "F64" -> "float8"
      [] tag = "Text" -> "text"
      [] tag = "Bytes" -> "bytea"
      [] tag = "Date" -> "date"
      [] tag = "Time" -> "time"
      [] tag = "Timestamp" -> "timestamp"
      [] tag = "TimestampTz" -> "timestamptz"
      [] tag = "Interval" -> "text"

WireNull == [isnull |-> TRUE, format |-> "", b |-> FALSE, n |-> << >>, s |-> ""]

\* A to_sql whose null variants went through the type check of the value
\* they stand for: an unrefined NullText is refused under a non-text type.
to_sql_null_type_checked(param, ty) ==
    IF param.tag = "NullText" /\ ty \notin {"TEXT", "VARCHAR", "BPCHAR"} THEN Err("WrongType")
    ELSE IF param.tag \in NullTags THEN Ok(WireNull)
    ELSE Ok([isnull |-> FALSE, format |-> WireFormat(param.tag),
             b |-> param.b, n |-> param.n, s |-> param.s])

to_sql(param, ty) ==
    IF param.tag \in NullTags THEN Ok(WireNull)
    ELSE Ok([isnull |-> FALSE, format |-> WireFormat(param.tag),
             b |-> param.b, n |-> param.n, s |-> param.s])

\* arg.extract::<i16>() and ::<i32>(): the number fits when the narrow value,
\* widened again, is the number.
FitsIn(ws, n) == SignExtend(LowWords(ws, n), Len(ws)) = ws

\* One turn of the loop of prepare_params (lines 19-177) on the argument at
\* 0-based idx, with the type the statement declares for it: Ok of the boxed
\* value, written as the OwnedParam variant that holds a value of the same
\* Rust type (a String is Text, None::<T> the null variant of T), or
\* Err(OxpgError).
prepare_one(idx, arg, expected) ==
    LET is == PyInstanceOf(arg.ty) IN
    IF "bool" \in is THEN Ok(OwnedParam("Bool", arg.b, << >>, ""))
    ELSE IF "int" \in is THEN
        CASE expected = "INT2" ->
                IF FitsIn(arg.n, 1) THEN Ok(OwnedParam("I16", FALSE, LowWords(arg.n, 1), ""))
                ELSE Err(OxpgErrorAt("InvalidParameter", "Could not fit argument {} into INT2", idx, "", 0))
          [] expected = "INT4" ->
                IF FitsIn(arg.n, 2) THEN Ok(OwnedParam("I32", FALSE, LowWords(arg.n, 2), ""))
                ELSE Err(OxpgErrorAt("InvalidParameter", "Could not fit argument {} into INT4", idx, "", 0))
          [] OTHER ->
                IF FitsIn(arg.n, 4) THEN Ok(OwnedParam("I64", FALSE, LowWords(arg.n, 4), ""))
                ELSE Err(OxpgErrorAt("InvalidParameter", "Could not fit argument {} into INT8", idx, "", 0))
    ELSE IF "float" \in is THEN
        IF expected = "FLOAT4" THEN Ok(OwnedParam("F32", FALSE, << >>, AsF32(arg.s)))
        ELSE Ok(OwnedParam("F64", FALSE, << >>, arg.s))
    ELSE IF "str" \in is THEN Ok(OwnedParam("Text", FALSE, << >>, arg.s))
    ELSE IF "NoneType" \in is THEN
        CASE expected = "BOOL"        -> Ok(NullParam("NullBool"))
          [] expected = "INT2"        -> Ok(NullParam("NullI16"))
          [] expected = "INT4"        -> Ok(NullParam("NullI32"))
          [] expected = "INT8"        -> Ok(NullParam("NullI64"))
          [] expected = "FLOAT4"      -> Ok(NullParam("NullF32"))
          [] expected = "FLOAT8"      -> Ok(NullParam("NullF64"))
          [] expected = "BYTEA"       -> Ok(NullParam("NullBytes"))
          [] expected = "DATE"        -> Ok(NullParam("NullDate"))
          [] expected = "TIMESTAMP"   -> Ok(NullParam("NullTimestamp"))
          [] expected = "TIMESTAMPTZ" -> Ok(NullParam("NullTimestampTz"))
          [] expected = "TIME"        -> Ok(NullParam("NullTime"))
          [] expected = "UUID"        -> Ok(NullParam("NullUuid"))
          [] OTHER                    -> Ok(NullParam("NullText"))
    ELSE IF "bytes" \in is \/ "bytearray" \in is THEN Ok(OwnedParam("Bytes", FALSE, << >>, arg.s))
    ELSE IF "datetime" \in is THEN
        IF arg.b
        THEN Err(OxpgErrorAt("InvalidParameter", "Could not extract NaiveDateTime for argument {}", idx, "", 0))
        ELSE IF expected = "TIMESTAMP" THEN Ok(OwnedParam("Timestamp", FALSE, << >>, arg.s))
        ELSE Ok(OwnedParam("TimestampTz", FALSE, << >>, arg.s))
    ELSE IF "date" \in is THEN Ok(OwnedParam("Date", FALSE, << >>, arg.s))
    ELSE IF "time" \in is THEN Ok(OwnedParam("Time", FALSE, << >>, arg.s))
    ELSE IF "timedelta" \in is THEN
        Ok(OwnedParam("Text", FALSE, arg.n, "{} days {} seconds {} microseconds"))
    ELSE Err(OxpgErrorAt("UnsupportedType", "Parameter at index {} is of type '{}', which is not supported",
                         idx, arg.ty, 0))

\* ToSql::accepts of the Rust type a boxed value of prepare_params has
\* (Vec<Box<dyn ToSql + Sync>>, line 16): the declared types its
\* to_sql_checked does not refuse.  Option<T> accepts what T accepts.
BoxedAccepts(tag) ==
    CASE tag \in {"Bool", "NullBool"}               -> {"BOOL"}
      [] tag \in {"I16", "NullI16"}                 -> {"INT2"}
      [] tag \in {"I32", "NullI32"}                 -> {"INT4"}
      [] tag \in {"I64", "NullI64"}                 -> {"INT8"}
      [] tag \in {"F32", "NullF32"}                 -> {"FLOAT4"}
      [] tag \in {"F64", "NullF64"}                 -> {"FLOAT8"}
      [] tag \in {"Text", "NullText"}               -> {"TEXT", "VARCHAR", "BPCHAR"}
      [] tag \in {"Bytes", "NullBytes"}             -> {"BYTEA"}
      [] tag \in {"Date", "NullDate"}               -> {"DATE"}
      [] tag \in {"Time", "NullTime"}               -> {"TIME"}
      [] tag \in {"Timestamp", "NullTimestamp"}     -> {"TIMESTAMP"}
      [] tag \in {"TimestampTz", "NullTimestampTz"} -> {"TIMESTAMPTZ"}
      [] tag = "NullUuid"                           -> {"UUID"}

\* to_sql_checked of a boxed value of prepare_params against the declared
\* type: refused when the Rust type does not accept it, and otherwise the
\* value in the format of its own type.
boxed_to_sql(boxed, ty) ==
    IF ty \notin BoxedAccepts(boxed.tag) THEN Err("WrongType")
    ELSE IF boxed.tag \in NullTags THEN Ok(WireNull)
    ELSE Ok([isnull |-> FALSE, format |-> WireFormat(boxed.tag),
             b |-> boxed.b, n |-> boxed.n, s |-> boxed.s])

(***************************************************************************)
(* The marshaler applied to every argument tuple and every statement       *)
(***************************************************************************)
MaxArgs == 2
MaxRefineArgs == 1
MaxStmtParams == 1

\* extract_params(args) on a tuple of at most maxlen arguments.
ExtractParams(maxlen) ==
    /\ ppc = "idle"
    /\ \E args \in SeqsUpTo(HostValues, maxlen) :
         /\ pargs' = args
         /\ extracted' = Some(extract_params(args))
         /\ ppc' = IF extract_params(args).ok THEN "extracted" ELSE "failed"
    /\ UNCHANGED <<stmtParams, refined>>
    /\ UNCHANGED notParamVars

\* The prepare round trip reveals the declared types, and refine_params
\* rewrites owned_params.
RefineParams ==
    /\ ppc = "extracted"
    /\ \E declared \in SeqsUpTo(Types, MaxStmtParams) :
         /\ stmtParams' = Some(declared)
         /\ refined' = Some(refine_params(Unwrap(extracted).val, declared))
    /\ ppc' = "refined"
    /\ UNCHANGED <<pargs, extracted>>
    /\ UNCHANGED notParamVars

ExtractNext == ExtractParams(MaxArgs)

SpecExtract == Init /\ [][ExtractNext]_vars

ParamNext ==
    \/ ExtractParams(MaxRefineArgs)
    \/ RefineParams

SpecParams == Init /\ [][ParamNext]_vars

(***************************************************************************)
(* client/conversions.rs: the row decoder                                  *)
(***************************************************************************)
\* The OID of each declared type (tokio_postgres::types::Type::oid).
TypeOid(ty) ==
    CASE ty = "BOOL" -> 16        [] ty = "BYTEA" -> 17      [] ty = "INT8" -> 20
      [] ty = "INT2" -> 21        [] ty = "INT4" -> 23       [] ty = "TEXT" -> 25
      [] ty = "JSON" -> 114       [] ty = "FLOAT4" -> 700    [] ty = "FLOAT8" -> 701
      [] ty = "BPCHAR" -> 1042    [] ty = "VARCHAR" -> 1043  [] ty = "DATE" -> 1082
      [] ty = "TIME" -> 1083      [] ty = "TIMESTAMP" -> 1114
      [] ty = "TIMESTAMPTZ" -> 1184                          [] ty = "INTERVAL" -> 1186
      [] ty = "NUMERIC" -> 1700   [] ty = "UUID" -> 2950     [] ty = "JSONB" -> 3802
      [] ty = "INT4RANGE" -> 3904

\* A column of a row: its name and its declared type.
Column(name, ty) == [name |-> name, type |-> ty]

\* A value of a row as the server sent it: SQL NULL, or the value in the
\* field of its sort.
Cell(b, n, s) == [isnull |-> FALSE, b |-> b, n |-> n, s |-> s]
NullCell == [isnull |-> TRUE, b |-> FALSE, n |-> << >>, s |-> ""]

\* A non-null value of each declared type.
SampleCell(ty) ==
    CASE ty = "BOOL" -> Cell(TRUE, << >>, "")
      [] ty = "INT2" -> Cell(FALSE, <<WordMax>>, "")            \* -1
      [] ty = "INT4" -> Cell(FALSE, <<0, 7>>, "")               \* 7
      [] ty = "INT8" -> Cell(FALSE, <<0, 1, 0, 5>>, "")         \* 2^32 + 5
      [] ty = "FLOAT4" -> Cell(FALSE, << >>, "0.1f32")
      [] ty = "FLOAT8" -> Cell(FALSE, << >>, "0.1")
      [] ty = "NUMERIC" -> Cell(FALSE, << >>, "1.10")
      [] ty \in {"TEXT", "VARCHAR", "BPCHAR"} -> Cell(FALSE, << >>, "abc")
      [] ty = "BYTEA" -> Cell(FALSE, << >>, "\\x01\\x02")
      [] ty = "DATE" -> Cell(FALSE, << >>, "2024-01-02")
      [] ty = "TIME" -> Cell(FALSE, << >>, "03:04:05")
      [] ty \in {"TIMESTAMP", "TIMESTAMPTZ"} -> Cell(FALSE, << >>, "2024-01-02 03:04:05")
      [] ty = "UUID" -> Cell(FALSE, << >>, "550E8400E29B41D4A716446655440000")
      [] ty \in {"JSON", "JSONB"} -> Cell(FALSE, << >>, "{ \"a\" : 1 }")
      [] ty = "INTERVAL" -> Cell(FALSE, << >>, "1 day")
      [] ty = "INT4RANGE" -> Cell(FALSE, << >>, "[1,5)")

\* The Rust type each arm of the match of row_to_dict asks the row for, and
\* whether it asks with try_get (an error is returned) or get (an error panics).
DecodeArm(ty) ==
    CASE ty = "BOOL" -> [rust |-> "bool", try |-> FALSE]
      [] ty = "BYTEA" -> [rust |-> "Vec<u8>", try |-> FALSE]
      [] ty = "DATE" -> [rust |-> "NaiveDate", try |-> FALSE]
      [] ty = "INT2" -> [rust |-> "i16", try |-> FALSE]
      [] ty = "INT4" -> [rust |-> "i32", try |-> FALSE]
      [] ty = "INT8" -> [rust |-> "i64", try |-> FALSE]
      [] ty \in {"JSON", "JSONB"} -> [rust |-> "serde_json::Value", try |-> FALSE]
      [] ty = "NUMERIC" -> [rust |-> "String", try |-> TRUE]
      [] ty = "FLOAT4" -> [rust |-> "f32", try |-> FALSE]
      [] ty = "FLOAT8" -> [rust |-> "f64", try |-> FALSE]
      [] ty \in {"TEXT", "VARCHAR", "BPCHAR"} -> [rust |-> "String", try |-> FALSE]
      [] ty = "TIME" -> [rust |-> "NaiveTime", try |-> FALSE]
      [] ty = "TIMESTAMP" -> [rust |-> "NaiveDateTime", try |-> FALSE]
      [] ty = "TIMESTAMPTZ" -> [rust |-> "DateTime<Utc>", try |-> FALSE]
      [] ty = "UUID" -> [rust |-> "Uuid", try |-> FALSE]
      [] OTHER -> [rust |-> "", try |-> FALSE]

\* The declared types the match of row_to_dict has an arm for.
DecoderTypes ==
    { "BOOL", "BYTEA", "DATE", "INT2", "INT4", "INT8", "JSON", "JSONB", "NUMERIC",
      "FLOAT4", "FLOAT8", "TEXT", "VARCHAR", "BPCHAR", "TIME", "TIMESTAMP",
      "TIMESTAMPTZ", "UUID" }

\* FromSql::accepts of the Rust type a column is read as: Row::get and
\* Row::try_get return WrongType, before looking at the value, when the type
\* asked for does not accept the column's declared type.
FromSqlAccepts(rust, ty) ==
    CASE rust = "bool" -> ty = "BOOL"
      [] rust = "i16" -> ty = "INT2"
      [] rust = "i32" -> ty = "INT4"
      [] rust = "i64" -> ty = "INT8"
      [] rust = "f32" -> ty = "FLOAT4"
      [] rust = "f64" -> ty = "FLOAT8"
      [] rust = "String" -> ty \in {"VARCHAR", "TEXT", "BPCHAR"}
      [] rust = "Vec<u8>" -> ty = "BYTEA"
      [] rust = "NaiveDate" -> ty = "DATE"
      [] rust = "NaiveTime" -> ty = "TIME"
      [] rust = "NaiveDateTime" -> ty = "TIMESTAMP"
      [] rust = "DateTime<Utc>" -> ty = "TIMESTAMPTZ"
      [] rust = "Uuid" -> ty = "UUID"
      [] rust = "serde_json::Value" -> ty \in {"JSON", "JSONB"}
      [] OTHER -> FALSE

\* Row::try_get::<_, Option<T>>: Err(WrongType), Ok(None) for SQL NULL, or
\* Ok(Some(value)).
row_try_get(rust, ty, cell) ==
    IF ~FromSqlAccepts(rust, ty) THEN Err("WrongType")
    ELSE IF cell.isnull THEN Ok(None)
    ELSE Ok(Some(cell))

\* f32 to the host float, which is a double: the value widened.
F32ToF64(v) == IF v = "0.1f32" THEN "0.10000000149011612" ELSE v

\* Uuid::to_string: the hyphenated lower-case form.
UuidToString(v) ==
    IF v = "550E8400E29B41D4A716446655440000"
    THEN "550e8400-e29b-41d4-a716-446655440000" ELSE v

\* serde_json::Value::to_string: the compact serialization of the parsed value.
JsonToString(v) == IF v = "{ \"a\" : 1 }" THEN "{\"a\":1}" ELSE v

PyNone == PyObj("NoneType", FALSE, << >>, "")

\* into_pyobject of the value an arm read.
into_pyobject(ty, cell) ==
    CASE ty = "BOOL" -> PyObj("bool", cell.b, << >>, "")
      [] ty \in {"INT2", "INT4", "INT8"} -> PyObj("int", FALSE, SignExtend(cell.n, 5), "")
      [] ty = "FLOAT4" -> PyObj("float", FALSE, << >>, F32ToF64(cell.s))
      [] ty = "FLOAT8" -> PyObj("float", FALSE, << >>, cell.s)
      [] ty \in {"TEXT", "VARCHAR", "BPCHAR", "NUMERIC"} -> PyObj("str", FALSE, << >>, cell.s)
      [] ty = "BYTEA" -> PyObj("bytes", FALSE, << >>, cell.s)
      [] ty = "DATE" -> PyObj("date", FALSE, << >>, cell.s)
      [] ty = "TIME" -> PyObj("time", FALSE, << >>, cell.s)
      [] ty = "TIMESTAMP" -> PyObj("datetime", FALSE, << >>, cell.s)
      [] ty = "TIMESTAMPTZ" -> PyObj("datetime", TRUE, << >>, cell.s)
      [] ty = "UUID" -> PyObj("str", FALSE, << >>, UuidToString(cell.s))
      [] ty \in {"JSON", "JSONB"} -> PyObj("str", FALSE, << >>, JsonToString(cell.s))

\* A panic of Row::get surfacing from the future.
PanicErr(name) ==
    [class |-> "PanicException", kind |-> "panic", msg |-> "error retrieving column",
     idx |-> -1, name |-> name, oid |-> 0]

\* One arm of the match of row_to_dict: Ok(host value) or Err(PyErr).
decode_column_null_as_default(column, cell) ==
    IF column.type \notin DecoderTypes
    THEN Err(PyErrFrom(OxpgErrorAt("UnsupportedType",
                "Unsupported Postgres type '{}' (OID {}) for column '{}'",
                -1, column.name, TypeOid(column.type))))
    ELSE LET arm == DecodeArm(column.type)
             r == row_try_get(arm.rust, column.type, cell)
         IN IF ~r.ok
            THEN IF arm.try
                 THEN Err(PyErrFrom(OxpgErrorAt("DataConversionError",
                            "Failed to convert NUMERIC column '{}' to string: {:?}",
                            -1, column.name, 0)))
                 ELSE Err(PanicErr(column.name))
            ELSE Ok(into_pyobject(column.type, [cell EXCEPT !.isnull = FALSE]))

decode_column(column, cell) ==
    IF column.type \notin DecoderTypes
    THEN Err(PyErrFrom(OxpgErrorAt("UnsupportedType",
                "Unsupported Postgres type '{}' (OID {}) for column '{}'",
                -1, column.name, TypeOid(column.type))))
    ELSE LET arm == DecodeArm(column.type)
             r == row_try_get(arm.rust, column.type, cell)
         IN IF ~r.ok
            THEN IF arm.try
                 THEN Err(PyErrFrom(OxpgErrorAt("DataConversionError",
                            "Failed to convert NUMERIC column '{}' to string: {:?}",
                            -1, column.name, 0)))
                 ELSE Err(PanicErr(column.name))
            ELSE IF IsNone(r.val) THEN Ok(PyNone)
            ELSE Ok(into_pyobject(column.type, Unwrap(r.val)))

\* A PyDict: its items in insertion order.  set_item on a key the dict holds
\* replaces the value in place; on a new key it appends the item.
DictKeys(d) == {d[i].key : i \in DOMAIN d}

DictGet(d, k) == d[CHOOSE i \in DOMAIN d : d[i].key = k].value

\* A set_item that leaves an existing key alone.
set_item_keep_first(d, k, v) ==
    IF k \in DictKeys(d) THEN d ELSE Append(d, [key |-> k, value |-> v])

set_item(d, k, v) ==
    IF k \in DictKeys(d)
    THEN [i \in DOMAIN d |-> IF d[i].key = k THEN [key |-> k, value |-> v] ELSE d[i]]
    ELSE Append(d, [key |-> k, value |-> v])

\* row_to_dict: the loop over the columns, returning at the first error.
RECURSIVE row_to_dict_from(_, _, _, _)
row_to_dict_from(columns, row, idx, row_dict) ==
    IF idx > Len(columns) THEN Ok(row_dict)
    ELSE LET value == decode_column(columns[idx], row[idx]) IN
         IF value.ok
         THEN row_to_dict_from(columns, row, idx + 1,
                               set_item(row_dict, columns[idx].name, value.val))
         ELSE value

row_to_dict(columns, row) == row_to_dict_from(columns, row, 1, << >>)

\* A loop that puts each decoded row in front of the result list.
RECURSIVE decode_rows_from_prepend(_, _, _, _)
decode_rows_from_prepend(columns, rs, i, result) ==
    IF i > Len(rs) THEN Ok(result)
    ELSE LET py_row == row_to_dict(columns, rs[i]) IN
         IF py_row.ok
         THEN decode_rows_from_prepend(columns, rs, i + 1, <<py_row.val>> \o result)
         ELSE py_row

\* The closure of Python::attach in Client::query: every row is decoded and
\* appended to the result list; the first error is returned in its place.
RECURSIVE decode_rows_from(_, _, _, _)
decode_rows_from(columns, rs, i, result) ==
    IF i > Len(rs) THEN Ok(result)
    ELSE LET py_row == row_to_dict(columns, rs[i]) IN
         IF py_row.ok THEN decode_rows_from(columns, rs, i + 1, Append(result, py_row.val))
         ELSE py_row

decode_rows(columns, rs) == decode_rows_from(columns, rs, 1, << >>)

(***************************************************************************)
(* client/mod.rs: Client::query                                            *)
(***************************************************************************)
MaxQueryArgs == 1
MaxCols == 2
MaxRows == 2

\* A SQL text, as the statement the server prepares for it: the declared
\* parameter types, the columns, and whether the columns select the
\* parameters back (SELECT $1).
Sql(echo, params, columns) == [echo |-> echo, params |-> params, columns |-> columns]

EchoSqls == { Sql(TRUE, <<ty>>, <<Column("?column?", ty)>>) : ty \in Types }

CoreColumns ==
    { Column("id", "INT4"), Column("name", "TEXT"), Column("id", "TEXT"),
      Column("amount", "NUMERIC"), Column("span", "INT4RANGE") }

SelectSqls ==
    { Sql(FALSE, << >>, <<Column("v", ty)>>) : ty \in Types }
    \cup { Sql(FALSE, << >>, cols) : cols \in SeqsUpTo(CoreColumns, MaxCols) }

QueryInputs ==
    { [sql |-> q, args |-> a] : q \in EchoSqls, a \in SeqsUpTo(HostValues, MaxQueryArgs) }
    \cup { [sql |-> q, args |-> << >>] : q \in SelectSqls }

\* The rows a statement can yield: every column SQL NULL or a value of its type.
RowsOf(columns) ==
    { [i \in DOMAIN columns |-> IF i \in nulls THEN NullCell ELSE SampleCell(columns[i].type)] :
        nulls \in SUBSET (DOMAIN columns) }

\* The format the server reads a parameter of each declared type in.
NativeFormat(ty) ==
    CASE ty = "BOOL" -> "bool"      [] ty = "INT2" -> "int2"     [] ty = "INT4" -> "int4"
      [] ty = "INT8" -> "int8"      [] ty = "FLOAT4" -> "float4" [] ty = "FLOAT8" -> "float8"
      [] ty \in {"TEXT", "VARCHAR", "BPCHAR"} -> "text"
      [] ty = "BYTEA" -> "bytea"    [] ty = "DATE" -> "date"     [] ty = "TIME" -> "time"
      [] ty = "TIMESTAMP" -> "timestamp"
      [] ty = "TIMESTAMPTZ" -> "timestamptz"
      [] OTHER -> "other"

\* The value the server selects back for a bound parameter: SQL NULL for a
\* null, the value itself when it was written in the type's format, and
\* otherwise whatever value of the type the server reads the bytes as.
ServerRead(ty, w) ==
    IF w.isnull THEN NullCell
    ELSE IF w.format = NativeFormat(ty) THEN Cell(w.b, w.n, w.s)
    ELSE SampleCell(ty)

\* The state connect(host, user, password) leaves when it succeeds.
ConnectedInit ==
    /\ cpc = "done"
    /\ cargs = Some([dsn |-> None, host |-> Some("db.local"), user |-> Some("app"),
                     password |-> Some("pw"), port |-> DefaultPort, db |-> "postgres"])
    /\ config = Some([host |-> "db.local", user |-> "app", port |-> DefaultPort, db |-> "postgres",
                      config |-> populate_config_from_params("db.local", "app", "pw",
                                                             DefaultPort, "postgres")])
    /\ cerr = None
    /\ client = Some([host |-> "db.local", port |-> DefaultPort, db |-> "postgres", user |-> "app"])
    /\ runtimesCreated = 1
    /\ connectAttempts = 1
    /\ connTasks = 1
    /\ connTask = "running"
    /\ logged = 0

\* The errors the driver can answer a prepare and an execution with.
PrepareErrors == {"syntax error at or near", "relation does not exist"}
ExecuteErrors == {"violates unique constraint", "division by zero"}

\* What the driver answers with once the connection future has ended: the
\* requests of the client handle fail, whatever they are.
DriverErrors(whileOpen) ==
    IF connTask = "running" THEN whileOpen ELSE {"connection closed"}

\* A prepare that failed, as Client::query and Client::execute report it.
PrepareFailed_as_query_failed(e) ==
    OxpgErrorOf("QueryFailed", "Error while generating statement: {:?}", e)

PrepareFailed(e) ==
    OxpgErrorOf("ExecutionError", "Error while generating statement: {:?}", e)

\* An execution that failed, as Client::query and Client::execute report it.
ExecuteFailed(e) ==
    OxpgErrorOf("ExecutionError", "Error while executing query: {:?}", e)

\* A failure that is recorded while the future goes on as if the prepare
\* had succeeded.
QueryFail_goes_on(e) ==
    /\ qresult' = Some(Err(PyErrFrom(e)))
    /\ qpc' = "prepared"

QueryFail(e) ==
    /\ qresult' = Some(Err(PyErrFrom(e)))
    /\ qpc' = "resolved"

\* Client::query is called (lines 41-44): the arguments are extracted on the
\* calling thread; an extraction error is raised there, and otherwise the
\* future is handed to future_into_py and the awaitable returned.
\* A Client::query that prepares the statement first and extracts the
\* arguments against it afterwards.
QueryCall_prepare_then_extract ==
    /\ qpc = "idle"
    /\ IsSome(client)
    /\ gil = "python"
    /\ op' = "query"
    /\ prepareReqs' = prepareReqs + 1
    /\ UNCHANGED <<executeReqs, prior, gil>>
    /\ \E call \in QueryInputs :
         /\ qsql' = Some(call.sql)
         /\ qargs' = call.args
         /\ LET r == extract_params(call.args) IN
              IF r.ok
              THEN /\ owned_params' = r.val
                   /\ qpc' = "spawned"
                   /\ qresult' = qresult
              ELSE /\ owned_params' = owned_params
                   /\ qpc' = "raised"
                   /\ qresult' = Some(r)
    /\ UNCHANGED <<statement, bound, rows>>
    /\ UNCHANGED notQueryVars

QueryCall_prepares_before_returning ==
    /\ qpc = "idle"
    /\ UNCHANGED reqVars
    /\ IsSome(client)
    /\ gil = "python"
    /\ op' = "query"
    /\ UNCHANGED <<prior, gil>>
    /\ \E call \in QueryInputs :
         /\ qsql' = Some(call.sql)
         /\ qargs' = call.args
         /\ LET r == extract_params(call.args) IN
              IF r.ok
              THEN /\ owned_params' = r.val
                   /\ statement' = Some([params |-> call.sql.params,
                                         columns |-> call.sql.columns])
                   /\ qpc' = "prepared"
                   /\ qresult' = qresult
              ELSE /\ owned_params' = owned_params
                   /\ statement' = statement
                   /\ qpc' = "raised"
                   /\ qresult' = Some(r)
    /\ UNCHANGED <<bound, rows>>
    /\ UNCHANGED notQueryVars

QueryCall ==
    /\ qpc = "idle"
    /\ UNCHANGED reqVars
    /\ IsSome(client)
    /\ gil = "python"
    /\ op' = "query"
    /\ UNCHANGED <<prior, gil>>
    /\ \E call \in QueryInputs :
         /\ qsql' = Some(call.sql)
         /\ qargs' = call.args
         /\ LET r == extract_params(call.args) IN
              IF r.ok
              THEN /\ owned_params' = r.val
                   /\ qpc' = "spawned"
                   /\ qresult' = qresult
              ELSE /\ owned_params' = owned_params
                   /\ qpc' = "raised"
                   /\ qresult' = Some(r)
    /\ UNCHANGED <<statement, bound, rows>>
    /\ UNCHANGED notQueryVars

\* client.prepare(&query).await (lines 45-50): the server answers with the
\* statement, or the prepare fails.
QueryPrepare ==
    /\ qpc = "spawned"
    /\ prepareReqs' = prepareReqs + 1
    /\ UNCHANGED executeReqs
    /\ op = "query"
    /\ UNCHANGED <<sessVars, gil>>
    /\ \/ /\ connTask = "running"
          /\ statement' = Some([params |-> Unwrap(qsql).params,
                                columns |-> Unwrap(qsql).columns])
          /\ qpc' = "prepared"
          /\ qresult' = qresult
       \/ /\ statement' = statement
          /\ \E e \in DriverErrors(PrepareErrors) : QueryFail(PrepareFailed(e))
    /\ UNCHANGED <<qsql, qargs, owned_params, bound, rows>>
    /\ UNCHANGED notQueryVars

\* refine_params(&mut owned_params, &statement) (lines 52-54).
QueryRefine ==
    /\ qpc = "prepared"
    /\ UNCHANGED reqVars
    /\ op = "query"
    /\ UNCHANGED <<sessVars, gil>>
    /\ owned_params' = refine_params(owned_params, Unwrap(statement).params)
    /\ qpc' = "refined"
    /\ UNCHANGED <<qsql, qargs, statement, bound, rows, qresult>>
    /\ UNCHANGED notQueryVars

\* The parameters as the driver encodes them for the Bind message: an error
\* when their number is not the number the statement declares, and otherwise
\* what to_sql_checked writes for each against its declared type.
encode_bind(params, declared) ==
    IF Len(params) # Len(declared) THEN Err("parameters")
    ELSE IF \E i \in DOMAIN params : ~to_sql(params[i], declared[i]).ok THEN Err("to_sql")
    ELSE Ok([i \in DOMAIN params |-> to_sql(params[i], declared[i]).val])

\* The rows the server can answer an execution with: for a statement that
\* selects its parameters back, the one row of them; otherwise any rows of
\* the statement's columns.
ServerRows(sql, stmt, wire) ==
    IF sql.echo
    THEN { << [i \in DOMAIN stmt.columns |-> ServerRead(stmt.columns[i].type, wire[i])] >> }
    ELSE SeqsUpTo(RowsOf(stmt.columns), MaxRows)

\* client.query(&statement, &ref_params).await (lines 56-61): the parameters
\* are bound, and the server answers with the rows or the execution fails.
QueryExecute ==
    /\ qpc = "refined"
    /\ UNCHANGED prepareReqs
    /\ op = "query"
    /\ UNCHANGED <<sessVars, gil>>
    /\ LET w == encode_bind(owned_params, Unwrap(statement).params) IN
         \/ /\ ~w.ok
            /\ bound' = bound
            /\ rows' = rows
            /\ executeReqs' = executeReqs
            /\ QueryFail(ExecuteFailed(w.err))
         \/ /\ w.ok
            /\ bound' = Some(w.val)
            /\ rows' = rows
            /\ executeReqs' = executeReqs + 1
            /\ \E e \in DriverErrors(ExecuteErrors) : QueryFail(ExecuteFailed(e))
         \/ /\ w.ok
            /\ connTask = "running"
            /\ bound' = Some(w.val)
            /\ executeReqs' = executeReqs + 1
            /\ \E rs \in ServerRows(Unwrap(qsql), Unwrap(statement), w.val) : rows' = Some(rs)
            /\ qpc' = "executed"
            /\ qresult' = qresult
    /\ UNCHANGED <<qsql, qargs, owned_params, statement>>
    /\ UNCHANGED notQueryVars

\* Python::attach (line 63): the worker thread that runs the future waits
\* for the interpreter and attaches to it.
QueryAttach_only_when_lock_free ==
    /\ qpc = "executed"
    /\ UNCHANGED reqVars
    /\ op = "query"
    /\ gil = "free"
    /\ gil' = "worker"
    /\ qpc' = "attached"
    /\ UNCHANGED <<qsql, qargs, owned_params, statement, bound, rows, qresult>>
    /\ UNCHANGED sessVars
    /\ UNCHANGED notQueryVars

QueryAttach ==
    /\ qpc = "executed"
    /\ UNCHANGED reqVars
    /\ op = "query"
    /\ gil # "worker"
    /\ gil' = "worker"
    /\ qpc' = "attached"
    /\ UNCHANGED <<qsql, qargs, owned_params, statement, bound, rows, qresult>>
    /\ UNCHANGED sessVars
    /\ UNCHANGED notQueryVars

\* The closure of Python::attach (lines 63-75): the rows are decoded into the
\* result list, which resolves the awaitable, or the first error does; the
\* worker detaches when the closure returns.
QueryDecode ==
    /\ qpc = "attached"
    /\ UNCHANGED reqVars
    /\ qresult' = Some(decode_rows(Unwrap(statement).columns, Unwrap(rows)))
    /\ qpc' = "resolved"
    /\ gil' = "python"
    /\ UNCHANGED <<qsql, qargs, owned_params, statement, bound, rows>>
    /\ UNCHANGED sessVars
    /\ UNCHANGED notQueryVars

\* What the end of a call leaves of the Client it was made on.  The call
\* borrows the Client (&self) and its future owns a clone of the Arc of the
\* driver handle (self.client.clone(), lines 41 and 86): dropping the clone
\* leaves the Client with its own.
DropClone_takes_handle(c, ok) == IF ok THEN c ELSE None

DropClone(c, ok) == c

\* The caller takes the outcome of the call, the exception raised or what
\* the awaitable resolved to: the locals of the call are gone, and the
\* Client is ready for the next call.
CallEnds ==
    /\ qpc \in {"raised", "resolved"}
    /\ prior' = IF Unwrap(qresult).ok THEN "ok" ELSE "failed"
    /\ op' = "none"
    /\ qpc' = "idle"
    /\ qsql' = None
    /\ qargs' = << >>
    /\ owned_params' = << >>
    /\ statement' = None
    /\ bound' = None
    /\ rows' = None
    /\ qresult' = None
    /\ client' = DropClone(client, Unwrap(qresult).ok)
    /\ prepareReqs' = 0
    /\ executeReqs' = 0
    /\ UNCHANGED gil
    /\ UNCHANGED <<cpc, cargs, config, cerr, runtimesCreated, connectAttempts, connTasks>>
    /\ UNCHANGED <<paramVars, concVars, errVars, taskVars>>

\* Client::execute (lines 80-110): the statements it is called with, one
\* that modifies rows with one parameter of each declared type or with none.
ExecSqls ==
    { Sql(FALSE, <<ty>>, << >>) : ty \in Types } \cup { Sql(FALSE, << >>, << >>) }

ExecInputs ==
    { [sql |-> q, args |-> a] : q \in ExecSqls, a \in SeqsUpTo(HostValues, MaxQueryArgs) }

\* The number of rows the server reports as affected, as the host integer
\* the awaitable resolves to.
RowCount(n) == PyObj("int", FALSE, <<0, 0, 0, 0, n>>, "")

\* Client::execute is called (lines 86-89): as in Client::query, the
\* arguments are extracted on the calling thread and the future is handed to
\* future_into_py.
ExecuteCall ==
    /\ qpc = "idle"
    /\ UNCHANGED reqVars
    /\ IsSome(client)
    /\ gil = "python"
    /\ op' = "execute"
    /\ UNCHANGED <<prior, gil>>
    /\ \E call \in ExecInputs :
         /\ qsql' = Some(call.sql)
         /\ qargs' = call.args
         /\ LET r == extract_params(call.args) IN
              IF r.ok
              THEN /\ owned_params' = r.val
                   /\ qpc' = "spawned"
                   /\ qresult' = qresult
              ELSE /\ owned_params' = owned_params
                   /\ qpc' = "raised"
                   /\ qresult' = Some(r)
    /\ UNCHANGED <<statement, bound, rows>>
    /\ UNCHANGED notQueryVars

\* client.prepare(&query).await (lines 90-95).
ExecutePrepare ==
    /\ qpc = "spawned"
    /\ prepareReqs' = prepareReqs + 1
    /\ UNCHANGED executeReqs
    /\ op = "execute"
    /\ UNCHANGED <<sessVars, gil>>
    /\ \/ /\ connTask = "running"
          /\ statement' = Some([params |-> Unwrap(qsql).params,
                                columns |-> Unwrap(qsql).columns])
          /\ qpc' = "prepared"
          /\ qresult' = qresult
       \/ /\ statement' = statement
          /\ \E e \in DriverErrors(PrepareErrors) : QueryFail(PrepareFailed(e))
    /\ UNCHANGED <<qsql, qargs, owned_params, bound, rows>>
    /\ UNCHANGED notQueryVars

\* refine_params(&mut owned_params, &statement) (lines 97-99).
ExecuteRefine ==
    /\ qpc = "prepared"
    /\ UNCHANGED reqVars
    /\ op = "execute"
    /\ UNCHANGED <<sessVars, gil>>
    /\ owned_params' = refine_params(owned_params, Unwrap(statement).params)
    /\ qpc' = "refined"
    /\ UNCHANGED <<qsql, qargs, statement, bound, rows, qresult>>
    /\ UNCHANGED notQueryVars

\* client.execute(&statement, &ref_params).await (lines 101-108): the
\* parameters are bound, and the server answers with the number of rows
\* affected, which resolves the awaitable, or the execution fails.
ExecuteRun ==
    /\ qpc = "refined"
    /\ UNCHANGED prepareReqs
    /\ op = "execute"
    /\ UNCHANGED <<sessVars, gil>>
    /\ LET w == encode_bind(owned_params, Unwrap(statement).params) IN
         \/ /\ ~w.ok
            /\ bound' = bound
            /\ executeReqs' = executeReqs
            /\ QueryFail(ExecuteFailed(w.err))
         \/ /\ w.ok
            /\ bound' = Some(w.val)
            /\ executeReqs' = executeReqs + 1
            /\ \E e \in DriverErrors(ExecuteErrors) : QueryFail(ExecuteFailed(e))
         \/ /\ w.ok
            /\ connTask = "running"
            /\ bound' = Some(w.val)
            /\ executeReqs' = executeReqs + 1
            /\ \E n \in 0..MaxRows : qresult' = Some(Ok(RowCount(n)))
            /\ qpc' = "resolved"
    /\ UNCHANGED <<qsql, qargs, owned_params, statement, rows>>
    /\ UNCHANGED notQueryVars

QueryNext ==
    \/ ExecuteCall
    \/ ExecutePrepare
    \/ ExecuteRefine
    \/ ExecuteRun
    \/ QueryCall
    \/ QueryPrepare
    \/ QueryRefine
    \/ QueryExecute
    \/ QueryAttach
    \/ QueryDecode
    \/ CallEnds

InitConnected ==
    ConnectedInit /\ ParamInit /\ QueryInit /\ SessInit /\ ConcInit /\ ErrInit /\ ReqInit

SpecQuery == InitConnected /\ [][QueryNext]_vars

\* The steps of the future future_into_py runs (lines 44-76, 89-109).
Pipeline ==
    \/ QueryPrepare
    \/ QueryRefine
    \/ QueryExecute
    \/ QueryAttach
    \/ QueryDecode
    \/ ExecutePrepare
    \/ ExecuteRefine
    \/ ExecuteRun

\* Client::query and Client::execute called with at most one argument on a
\* statement of at most one column: the calls whose futures are followed to
\* their end.
OneColumnCall ==
    /\ Len(qargs') <= 1
    /\ Len(Unwrap(qsql').columns) <= 1

FairQueryCall == QueryCall /\ OneColumnCall

FairExecuteCall == ExecuteCall /\ OneColumnCall

FairNext ==
    \/ FairQueryCall
    \/ FairExecuteCall
    \/ Pipeline
    \/ CallEnds

\* The runtime keeps polling the future it was given, the driver answers
\* every request, and the interpreter lets a waiting thread attach: a step of
\* the future that stays possible is taken.
SpecQueryFair == InitConnected /\ [][FairNext]_vars /\ WF_vars(Pipeline)

(***************************************************************************)
(* Client::query called again while an earlier call is in flight.  Each    *)
(* future owns its locals (query, owned_params, statement, rows) and       *)
(* shares the driver handle; the driver names each statement from a        *)
(* counter, sends the requests of all futures on the one connection and    *)
(* hands each answer, in the order of the requests, to the future that     *)
(* sent the request.                                                       *)
(***************************************************************************)
ConcInputs ==
    { [sql |-> Sql(TRUE, <<"INT4">>, <<Column("?column?", "INT4")>>),
       args |-> <<PyObj("int", FALSE, <<0, 0, 0, 0, 7>>, "")>>],
      [sql |-> Sql(TRUE, <<"TEXT">>, <<Column("?column?", "TEXT")>>),
       args |-> <<PyObj("str", FALSE, << >>, "abc")>>],
      [sql |-> Sql(TRUE, <<"INT4">>, <<Column("?column?", "INT4")>>),
       args |-> <<PyObj("list", FALSE, << >>, "[1]")>>],
      [sql |-> Sql(FALSE, << >>, <<Column("id", "INT4"), Column("name", "TEXT")>>),
       args |-> << >>],
      [sql |-> Sql(FALSE, << >>, <<Column("span", "INT4RANGE")>>),
       args |-> << >>] }

\* The rows of a statement that is run again and again on unchanged tables:
\* the row of its parameters for one that selects them back, and otherwise a
\* row of values followed by a row of SQL NULLs.
StableRows(sql, params) ==
    IF sql.echo
    THEN << [i \in DOMAIN sql.columns |-> ServerRead(sql.columns[i].type, params[i])] >>
    ELSE << [i \in DOMAIN sql.columns |-> SampleCell(sql.columns[i].type)],
            [i \in DOMAIN sql.columns |-> NullCell] >>

Request(id, kind, name, sql, params) ==
    [id |-> id, kind |-> kind, name |-> name, sql |-> sql, params |-> params]

\* The call id is made (lines 41-44).
CQueryCall(id) ==
    /\ calls[id].pc = "idle"
    /\ IsSome(client)
    /\ gil = "python"
    /\ \E call \in ConcInputs :
         LET r == extract_params(call.args) IN
         calls' = [calls EXCEPT ![id] =
                     IF r.ok
                     THEN [@ EXCEPT !.pc = "spawned", !.sql = Some(call.sql), !.args = call.args,
                                    !.owned_params = r.val]
                     ELSE [@ EXCEPT !.pc = "raised", !.sql = Some(call.sql), !.args = call.args,
                                    !.result = Some(r)]]
    /\ UNCHANGED <<inflight, nextStmt, stmts, gil>>
    /\ UNCHANGED notConcVars

\* client.prepare(&query) is polled (line 45): the driver names the
\* statement and sends the request.
CPrepareSend(id) ==
    /\ calls[id].pc = "spawned"
    /\ inflight' = Append(inflight, Request(id, "prepare", nextStmt, calls[id].sql, << >>))
    /\ nextStmt' = nextStmt + 1
    /\ calls' = [calls EXCEPT ![id].pc = "preparing", ![id].prepares = @ + 1]
    /\ UNCHANGED <<stmts, gil>>
    /\ UNCHANGED notConcVars

\* The answer to the oldest request is for call id, which awaits its prepare
\* (lines 45-50): the statement, or the error.
CPrepareRecv(id) ==
    /\ calls[id].pc = "preparing"
    /\ inflight # << >>
    /\ Head(inflight).id = id
    /\ inflight' = Tail(inflight)
    /\ LET req == Head(inflight) IN
         \/ /\ connTask = "running"
            /\ stmts' = stmts \cup {[name |-> req.name, sql |-> Unwrap(req.sql)]}
            /\ calls' = [calls EXCEPT ![id].pc = "prepared",
                                      ![id].statement =
                                          Some([name |-> req.name,
                                                params |-> Unwrap(req.sql).params,
                                                columns |-> Unwrap(req.sql).columns])]
         \/ /\ stmts' = stmts
            /\ \E e \in DriverErrors(PrepareErrors) :
                 calls' = [calls EXCEPT ![id].pc = "resolved",
                                        ![id].result = Some(Err(PyErrFrom(PrepareFailed(e))))]
    /\ UNCHANGED <<nextStmt, gil>>
    /\ UNCHANGED notConcVars

\* refine_params(&mut owned_params, &statement) (lines 52-54).
CRefine(id) ==
    /\ calls[id].pc = "prepared"
    /\ calls' = [calls EXCEPT ![id].pc = "refined",
                              ![id].owned_params =
                                  refine_params(@, Unwrap(calls[id].statement).params)]
    /\ UNCHANGED <<inflight, nextStmt, stmts, gil>>
    /\ UNCHANGED notConcVars

\* The statement call id executes: the one its own prepare returned, held in
\* the local `statement` of its future (line 56).
ExecStatement_of_other_call(id) ==
    IF \E o \in Calls \ {id} : IsSome(calls[o].statement)
    THEN Unwrap(calls[CHOOSE o \in Calls \ {id} : IsSome(calls[o].statement)].statement)
    ELSE Unwrap(calls[id].statement)

ExecStatement(id) == Unwrap(calls[id].statement)

\* client.query(&statement, &ref_params) is polled (line 56): the parameters
\* are encoded and the request is sent, or the encoding fails.
CExecuteSend(id) ==
    /\ calls[id].pc = "refined"
    /\ LET st == ExecStatement(id)
           w == encode_bind(calls[id].owned_params, st.params)
       IN IF w.ok
          THEN /\ inflight' = Append(inflight, Request(id, "execute", st.name, None, w.val))
               /\ calls' = [calls EXCEPT ![id].pc = "executing", ![id].bound = Some(w.val),
                                         ![id].executes = @ + 1]
          ELSE /\ inflight' = inflight
               /\ calls' = [calls EXCEPT ![id].pc = "resolved",
                                         ![id].result = Some(Err(PyErrFrom(ExecuteFailed(w.err))))]
    /\ UNCHANGED <<nextStmt, stmts, gil>>
    /\ UNCHANGED notConcVars

\* The answer to the oldest request is for call id, which awaits its
\* execution (lines 56-61): the rows of the statement of that name, or the
\* error.
CExecuteRecv(id) ==
    /\ calls[id].pc = "executing"
    /\ inflight # << >>
    /\ Head(inflight).id = id
    /\ inflight' = Tail(inflight)
    /\ LET req == Head(inflight)
           held == CHOOSE st \in stmts : st.name = req.name
       IN \/ /\ connTask = "running"
             /\ calls' = [calls EXCEPT ![id].pc = "executed",
                                       ![id].rows = Some(StableRows(held.sql, req.params))]
          \/ \E e \in DriverErrors(ExecuteErrors) :
               calls' = [calls EXCEPT ![id].pc = "resolved",
                                      ![id].result = Some(Err(PyErrFrom(ExecuteFailed(e))))]
    /\ UNCHANGED <<nextStmt, stmts, gil>>
    /\ UNCHANGED notConcVars

\* The connection future spawned by connect() ends with an error (lines
\* 172-176): the task writes the error to stderr and is over.
ConnectionFails_closes_client ==
    /\ connTask = "running"
    /\ connTask' = "failed"
    /\ logged' = logged + 1
    /\ client' = None
    /\ UNCHANGED <<cpc, cargs, config, cerr, runtimesCreated, connectAttempts, connTasks>>
    /\ UNCHANGED <<paramVars, queryVars, sessVars, gil, concVars, errVars, reqVars>>

ConnectionFails ==
    /\ connTask = "running"
    /\ connTask' = "failed"
    /\ logged' = logged + 1
    /\ UNCHANGED <<connVars, paramVars, queryVars, sessVars, gil, concVars, errVars, reqVars>>

\* The Client is destroyed: its fields are dropped (lines 22-29). Dropping
\* the Runtime drops the connection future spawned on it (lines 172-176);
\* the handle is an Arc, of which every future of a call holds its own clone
\* (line 41), and those futures were given to future_into_py (line 44), not
\* spawned on the Runtime of the Client.
ClientDrop ==
    /\ cpc = "done"
    /\ IsSome(client)
    /\ gil = "python"
    /\ client' = None
    /\ connTask' = "dropped"
    /\ UNCHANGED <<cpc, cargs, config, cerr, runtimesCreated, connectAttempts, connTasks>>
    /\ UNCHANGED <<paramVars, queryVars, sessVars, gil, concVars, errVars, reqVars, logged>>

\* Python::attach (line 63): the worker that runs the future of call id
\* attaches to the interpreter once no other thread of the runtime is.
CAttach(id) ==
    /\ calls[id].pc = "executed"
    /\ gil # "worker"
    /\ gil' = "worker"
    /\ calls' = [calls EXCEPT ![id].pc = "attached"]
    /\ UNCHANGED <<inflight, nextStmt, stmts>>
    /\ UNCHANGED notConcVars

\* The closure of Python::attach (lines 63-75).
CDecode(id) ==
    /\ calls[id].pc = "attached"
    /\ gil' = "python"
    /\ calls' = [calls EXCEPT ![id].pc = "resolved",
                              ![id].result =
                                  Some(decode_rows(ExecStatement(id).columns,
                                                   Unwrap(calls[id].rows)))]
    /\ UNCHANGED <<inflight, nextStmt, stmts>>
    /\ UNCHANGED notConcVars

ConcNext ==
    \/ ConnNext
    \/ ConnectionFails
    \/ ClientDrop
    \/ \E id \in Calls :
         \/ CQueryCall(id)
         \/ CPrepareSend(id)
         \/ CPrepareRecv(id)
         \/ CRefine(id)
         \/ CExecuteSend(id)
         \/ CExecuteRecv(id)
         \/ CAttach(id)
         \/ CDecode(id)

SpecConcurrent == Init /\ [][ConcNext]_vars

(***************************************************************************)
(* Properties of the marshaler                                             *)
(***************************************************************************)
Declared == Unwrap(stmtParams)

\* C4: for every 64-bit integer argument and every declared type among INT2,
\* INT4 and INT8, the value bound for the parameter is numerically equal to
\* the argument.
C4_NarrowingKeepsValue ==
    ppc = "refined" =>
        \A i \in DOMAIN pargs :
            (/\ pargs[i].ty = "int"
             /\ i <= Len(Declared)
             /\ Declared[i] \in {"INT2", "INT4", "INT8"}) =>
                LET w == to_sql(Unwrap(refined)[i], Declared[i]) IN
                    /\ w.ok
                    /\ ~w.val.isnull
                    /\ NumEq(w.val.n, pargs[i].n)

\* The types extract_params supports.
SupportedPyTypes ==
    { "bool", "int", "float", "str", "NoneType", "bytes", "bytearray",
      "datetime", "date", "time", "timedelta" }

Unsupported(arg) == PyInstanceOf(arg.ty) \cap SupportedPyTypes = {}

\* An argument of a supported type whose value has no OwnedParam: an int
\* outside the 64-bit range, a datetime with a tzinfo.
Unextractable(arg) ==
    \/ arg.ty = "int" /\ ~FitsI64(arg.n)
    \/ arg.ty = "datetime" /\ arg.b

UnsupportedAt == {i \in DOMAIN pargs : Unsupported(pargs[i])}

FirstUnsupported == CHOOSE i \in UnsupportedAt : \A j \in UnsupportedAt : i <= j

ExtractCalled == IsSome(extracted)

UnsupportedReported ==
    /\ ppc = "failed"
    /\ ~Unwrap(extracted).ok
    /\ Unwrap(extracted).err.kind = "UnsupportedType"
    /\ Unwrap(extracted).err.class = "DataError"
    /\ Unwrap(extracted).err.idx = FirstUnsupported - 1
    /\ Unwrap(extracted).err.name = pargs[FirstUnsupported].ty

\* C5 as stated: whenever an argument is of none of the supported types,
\* extract_params fails with UnsupportedType identifying the lowest index of
\* such an argument and its type name, and returns no parameter list.
C5_UnsupportedAlwaysReported ==
    (ExtractCalled /\ UnsupportedAt # {}) => UnsupportedReported

\* C5 amended: the same, when every argument before the first unsupported one
\* is extracted; an unextractable argument before it fails the call first,
\* with InvalidParameter for its own index.  In both cases no parameter list
\* is returned.
C5_FirstUnsupportedReported ==
    (ExtractCalled /\ UnsupportedAt # {}) =>
        /\ ~Unwrap(extracted).ok
        /\ ppc = "failed"
        /\ IF \E j \in 1..(FirstUnsupported - 1) : Unextractable(pargs[j])
           THEN LET j == CHOOSE j \in 1..(FirstUnsupported - 1) :
                            /\ Unextractable(pargs[j])
                            /\ \A k \in 1..(j - 1) : ~Unextractable(pargs[k])
                IN /\ Unwrap(extracted).err.kind = "InvalidParameter"
                   /\ Unwrap(extracted).err.idx = j - 1
           ELSE UnsupportedReported

C5_Witness ==
    /\ ExtractCalled
    /\ Len(pargs) = 2
    /\ pargs[1].ty = "str"
    /\ pargs[2].ty = "Decimal"
    /\ UnsupportedReported
    /\ Unwrap(extracted).err.idx = 1

\* The refinement table of C6: the variant each (variant, declared type) pair
\* is rewritten to.
NarrowedTag ==
    { <<"I64", "INT2", "I16">>, <<"I64", "INT4", "I32">>, <<"F64", "FLOAT4", "F32">>,
      <<"TimestampTz", "TIMESTAMP", "Timestamp">>,
      <<"NullText", "BOOL", "NullBool">>, <<"NullText", "INT2", "NullI16">>,
      <<"NullText", "INT4", "NullI32">>, <<"NullText", "INT8", "NullI64">>,
      <<"NullText", "FLOAT4", "NullF32">>, <<"NullText", "FLOAT8", "NullF64">>,
      <<"NullText", "BYTEA", "NullBytes">>, <<"NullText", "DATE", "NullDate">>,
      <<"NullText", "TIME", "NullTime">>, <<"NullText", "TIMESTAMP", "NullTimestamp">>,
      <<"NullText", "TIMESTAMPTZ", "NullTimestampTz">>, <<"NullText", "UUID", "NullUuid">> }

InTable(tag, ty) == \E e \in NarrowedTag : e[1] = tag /\ e[2] = ty

\* C6: refine_params rewrites a parameter exactly as the refinement table
\* says (a TimestampTz keeping its wall clock value), and leaves every other
\* pair unchanged, a null under an unknown declared type staying text-null.
C6_RefinementTable ==
    ppc = "refined" =>
        /\ DOMAIN Unwrap(refined) = DOMAIN Unwrap(extracted).val
        /\ \A i \in DOMAIN Unwrap(refined) :
             LET before == Unwrap(extracted).val[i]
                 after == Unwrap(refined)[i]
             IN IF i <= Len(Declared) /\ InTable(before.tag, Declared[i])
                THEN /\ <<before.tag, Declared[i], after.tag>> \in NarrowedTag
                     /\ before.tag = "TimestampTz" => after.s = before.s
                ELSE after = before

C6_Witness ==
    /\ ppc = "refined"
    /\ Len(pargs) = 1
    /\ Len(Declared) = 1
    /\ Declared[1] = "UUID"
    /\ Unwrap(extracted).val[1].tag = "NullText"
    /\ Unwrap(refined)[1].tag = "NullUuid"

(***************************************************************************)
(* Properties of Client::query and of the row decoder                      *)
(***************************************************************************)
Columns == Unwrap(statement).columns

\* The call ran to the end of its pipeline on rows the server delivered.
Decoded == qpc = "resolved" /\ IsSome(rows)

Result == Unwrap(qresult)

\* The call passes None for the one parameter of a statement that selects
\* the parameter back.
NullEcho == IsSome(qsql) /\ Unwrap(qsql).echo /\ qargs = <<PyNone>>

\* The reference table of the decoder: the host type of each declared type.
HostTypeOf(ty) ==
    CASE ty = "BOOL" -> "bool"
      [] ty \in {"INT2", "INT4", "INT8"} -> "int"
      [] ty \in {"FLOAT4", "FLOAT8"} -> "float"
      [] ty \in {"TEXT", "VARCHAR", "BPCHAR", "UUID", "JSON", "JSONB"} -> "str"
      [] ty = "BYTEA" -> "bytes"
      [] ty = "DATE" -> "date"
      [] ty = "TIME" -> "time"
      [] ty \in {"TIMESTAMP", "TIMESTAMPTZ"} -> "datetime"

TableTypes ==
    { "BOOL", "INT2", "INT4", "INT8", "FLOAT4", "FLOAT8", "TEXT", "VARCHAR", "BPCHAR",
      "BYTEA", "DATE", "TIME", "TIMESTAMP", "TIMESTAMPTZ", "UUID", "JSON", "JSONB" }

\* The mapping is [name -> None] for the one column.
IsNullMapping(d) == Len(d) = 1 /\ d[1].value = PyNone

\* C7 as stated: for every declared parameter type, None is bound as SQL NULL
\* and the query that selects the parameter back returns a mapping whose
\* entry is the host null value.
C7_NullReadsBackForEveryType ==
    (NullEcho /\ Decoded) =>
        /\ Unwrap(bound)[1].isnull
        /\ Result.ok
        /\ Len(Result.val) = 1
        /\ IsNullMapping(Result.val[1])

\* C7 amended: for every declared parameter type, None is bound as SQL NULL
\* with no client-side error; the query that selects it back returns the
\* mapping with the host null value when the type is one the decoder reads,
\* and fails with a DataError otherwise (UnsupportedType for a type the
\* decoder has no arm for, DataConversionError for NUMERIC).
C7_NullBoundAndReadBackWhereDecodable ==
    /\ (NullEcho /\ qpc = "refined") =>
          /\ encode_bind(owned_params, Unwrap(statement).params).ok
          /\ encode_bind(owned_params, Unwrap(statement).params).val[1].isnull
    /\ (NullEcho /\ IsSome(bound)) => Unwrap(bound)[1].isnull
    /\ (NullEcho /\ Decoded) =>
          LET ty == Columns[1].type IN
          IF ty \in TableTypes
          THEN /\ Result.ok
               /\ Len(Result.val) = 1
               /\ IsNullMapping(Result.val[1])
          ELSE /\ ~Result.ok
               /\ Result.err.class = "DataError"
               /\ Result.err.kind =
                    IF ty = "NUMERIC" THEN "DataConversionError" ELSE "UnsupportedType"

C7_Witness ==
    /\ NullEcho
    /\ Decoded
    /\ Unwrap(statement).params = <<"INT4">>
    /\ owned_params = <<NullParam("NullI32")>>
    /\ Result.ok
    /\ IsNullMapping(Result.val[1])

\* The last column of the row that has the name of column c.
LastNamed(c) == CHOOSE j \in DOMAIN Columns :
                    /\ Columns[j].name = Columns[c].name
                    /\ \A k \in DOMAIN Columns : Columns[k].name = Columns[c].name => k <= j

\* C8: a row whose columns are of the types of the reference table decodes
\* to a mapping whose value for each column is of the host type the table
\* gives (TIMESTAMP naive, TIMESTAMPTZ zoned, UUID in canonical text, JSON in
\* compact text), and None where the column is SQL NULL.
C8_DecodeTable ==
    (Decoded /\ \A c \in DOMAIN Columns : Columns[c].type \in TableTypes) =>
        /\ Result.ok
        /\ Len(Result.val) = Len(Unwrap(rows))
        /\ \A r \in DOMAIN Unwrap(rows) : \A c \in DOMAIN Columns :
             LET ty == Columns[LastNamed(c)].type
                 cell == Unwrap(rows)[r][LastNamed(c)]
                 v == DictGet(Result.val[r], Columns[c].name)
             IN IF cell.isnull THEN v = PyNone
                ELSE /\ v.ty = HostTypeOf(ty)
                     /\ ty = "TIMESTAMP" => ~v.b
                     /\ ty = "TIMESTAMPTZ" => v.b
                     /\ ty = "UUID" => v.s = "550e8400-e29b-41d4-a716-446655440000"
                     /\ ty \in {"JSON", "JSONB"} => v.s = "{\"a\":1}"
                     /\ ty \in {"INT2", "INT4", "INT8"} => NumEq(v.n, cell.n)

C8_Witness ==
    /\ Decoded
    /\ Columns = <<Column("v", "UUID")>>
    /\ Len(Unwrap(rows)) = 2
    /\ Unwrap(rows)[1][1].isnull
    /\ ~Unwrap(rows)[2][1].isnull
    /\ Result.ok
    /\ Result.val[1][1].value = PyNone
    /\ Result.val[2][1].value.ty = "str"

\* C9: a non-null value in a NUMERIC column decodes to a host text holding
\* its decimal representation, and the decode does not fail.
C9_NumericDecodesToText ==
    (Decoded /\ \A c \in DOMAIN Columns : Columns[c].type \in TableTypes \cup {"NUMERIC"}) =>
        /\ Result.ok
        /\ \A r \in DOMAIN Unwrap(rows) : \A c \in DOMAIN Columns :
             (Columns[c].type = "NUMERIC" /\ LastNamed(c) = c /\ ~Unwrap(rows)[r][c].isnull) =>
                LET v == DictGet(Result.val[r], Columns[c].name)
                IN v.ty = "str" /\ v.s = Unwrap(rows)[r][c].s

UnsupportedColumns == {c \in DOMAIN Columns : Columns[c].type \notin DecoderTypes}

\* C10: when a row was delivered and a column is of a type outside the
\* supported set, the call fails with UnsupportedType naming the column and
\* the OID of its type, and returns no mapping.
C10_UnsupportedColumnFailsCall ==
    (Decoded /\ Len(Unwrap(rows)) > 0 /\ UnsupportedColumns # {}) =>
        LET c == CHOOSE c \in UnsupportedColumns : \A d \in UnsupportedColumns : c <= d
        IN /\ ~Result.ok
           /\ Result.err.kind = "UnsupportedType"
           /\ Result.err.class = "DataError"
           /\ Result.err.name = Columns[c].name
           /\ Result.err.oid = TypeOid(Columns[c].type)

\* The names of the columns in server order, each at its first position.
RECURSIVE FirstNames(_, _)
FirstNames(columns, acc) ==
    IF columns = << >> THEN acc
    ELSE FirstNames(Tail(columns),
                    IF \E i \in DOMAIN acc : acc[i] = Head(columns).name
                    THEN acc ELSE Append(acc, Head(columns).name))

KeysInOrder(d) == [i \in DOMAIN d |-> d[i].key]

\* C11: a successful Query returns one mapping per delivered row, the r-th
\* mapping made of the r-th row, with its keys in server column order; this
\* holds whatever call came before on the Client.
C11_RowsAndKeysInOrder ==
    (Decoded /\ Result.ok) =>
        /\ Len(Result.val) = Len(Unwrap(rows))
        /\ \A r \in DOMAIN Unwrap(rows) :
             /\ KeysInOrder(Result.val[r]) = FirstNames(Columns, << >>)
             /\ \A c \in DOMAIN Columns :
                  (DictGet(Result.val[r], Columns[c].name) = PyNone)
                      <=> Unwrap(rows)[r][LastNamed(c)].isnull

C11_Witness ==
    /\ Decoded
    /\ prior = "ok"
    /\ Columns = <<Column("id", "INT4"), Column("name", "TEXT")>>
    /\ Len(Unwrap(rows)) = 2
    /\ Unwrap(rows)[1][1].isnull
    /\ ~Unwrap(rows)[2][1].isnull
    /\ Result.ok
    /\ KeysInOrder(Result.val[1]) = <<"id", "name">>
    /\ Result.val[1][1].value = PyNone
    /\ Result.val[2][1].value # PyNone

\* C12: when several columns of a row have the same name, the mapping has
\* one entry per distinct name, and the entry of a repeated name holds the
\* value of the last column of that name.
C12_DuplicateNamesLastWins ==
    (Decoded /\ Result.ok) =>
        \A r \in DOMAIN Unwrap(rows) :
            LET d == Result.val[r] IN
            /\ Len(d) = Cardinality({Columns[c].name : c \in DOMAIN Columns})
            /\ Cardinality(DictKeys(d)) = Len(d)
            /\ \A c \in DOMAIN Columns :
                 LET cell == Unwrap(rows)[r][LastNamed(c)]
                     v == DictGet(d, Columns[c].name)
                 IN IF cell.isnull THEN v = PyNone
                    ELSE v.ty = HostTypeOf(Columns[LastNamed(c)].type)

C12_Witness ==
    /\ Decoded
    /\ Columns = <<Column("id", "INT4"), Column("id", "TEXT")>>
    /\ Len(Unwrap(rows)) = 1
    /\ ~Unwrap(rows)[1][1].isnull
    /\ ~Unwrap(rows)[1][2].isnull
    /\ Result.ok
    /\ Len(Result.val[1]) = 1
    /\ Result.val[1][1].key = "id"
    /\ Result.val[1][1].value.ty = "str"

\* The call failed in its prepare step, or in its execute step.
FailedAtPrepare == qpc = "resolved" /\ IsNone(statement)
FailedAtExecute == qpc = "resolved" /\ IsSome(statement) /\ IsNone(rows) /\ ~Result.ok

\* C13: in Query and in Execute, a failed prepare and a failed execution are
\* both raised as ExecutionError, of the one class DatabaseError, and each
\* carries the diagnostic of the driver.
C13_PrepareAndExecuteFailuresAlike ==
    /\ FailedAtPrepare =>
          /\ ~Result.ok
          /\ Result.err.kind = "ExecutionError"
          /\ Result.err.class = "DatabaseError"
          /\ Result.err.detail \in PrepareErrors
    /\ FailedAtExecute =>
          /\ Result.err.kind = "ExecutionError"
          /\ Result.err.class = "DatabaseError"
          /\ Result.err.detail \in ExecuteErrors \cup {"parameters", "to_sql"}

C13_Witness ==
    /\ op = "execute"
    /\ FailedAtExecute
    /\ prior = "failed"
    /\ Result.err.kind = "ExecutionError"
    /\ Result.err.detail = "violates unique constraint"

\* The Connection as connect() returned it: its fields, its runtime and the
\* connection task behind its client handle.
ConnectionIntact ==
    /\ client = Some([host |-> "db.local", port |-> DefaultPort, db |-> "postgres", user |-> "app"])
    /\ runtimesCreated = 1
    /\ connTasks = 1
    /\ connectAttempts = 1

CallFailed == qpc \in {"raised", "resolved"} /\ ~Result.ok

\* C14: a Query or Execute that failed, at whatever step, leaves the
\* Connection as it was, and the next call on it can be made and runs the
\* same pipeline.
C14_FailedCallLeavesConnection ==
    /\ (CallFailed \/ prior = "failed") => ConnectionIntact
    /\ (prior = "failed" /\ qpc = "idle") => (ENABLED QueryCall /\ ENABLED ExecuteCall)

\* A Query succeeds on a Connection whose previous call failed.
C14_Witness ==
    /\ prior = "failed"
    /\ op = "query"
    /\ Decoded
    /\ Result.ok
    /\ Len(Result.val) = 1
    /\ ConnectionIntact

\* The rows the statement and the arguments of call id produce, on their own.
OwnRows(id) ==
    LET sql == Unwrap(calls[id].sql)
        own == refine_params(extract_params(calls[id].args).val, sql.params)
    IN StableRows(sql, encode_bind(own, sql.params).val)

\* C15: of two Query calls in flight together, under every interleaving of
\* their prepare and execute steps, each receives the rows of its own
\* statement and parameters and resolves with them, in the order of the
\* driver, and with no row of the other call.
C15_ConcurrentCallsKeepTheirRows ==
    \A id \in Calls :
        /\ IsSome(calls[id].rows) => calls[id].rows = Some(OwnRows(id))
        /\ (calls[id].pc = "resolved" /\ IsSome(calls[id].rows)) =>
              calls[id].result =
                  Some(decode_rows(Unwrap(calls[id].sql).columns, OwnRows(id)))

\* Both calls were in flight together, call 2 prepared first and executed
\* last, and each resolved with its own rows.
C15_Witness ==
    /\ calls[1].pc = "resolved"
    /\ calls[2].pc = "resolved"
    /\ IsSome(calls[1].statement)
    /\ IsSome(calls[2].statement)
    /\ IsSome(calls[1].result)
    /\ IsSome(calls[2].result)
    /\ Unwrap(calls[1].statement).name = 1
    /\ Unwrap(calls[2].statement).name = 0
    /\ Unwrap(calls[1].sql).echo
    /\ ~Unwrap(calls[2].sql).echo
    /\ Unwrap(calls[1].result).ok
    /\ Unwrap(calls[2].result).ok
    /\ Len(Unwrap(calls[1].result).val) = 1
    /\ Len(Unwrap(calls[2].result).val) = 2

\* The step in which a call hands its awaitable to the caller.
AwaitableReturned == qpc = "idle" /\ qpc' \notin {"idle", "raised"}

\* C16: Query and Execute return their awaitable when the arguments are
\* extracted and nothing else is done: in the step that returns it the
\* parameters are the extracted ones, and the call has no statement, no
\* bound parameters, no rows and no outcome yet.
C16_AwaitableBeforePipeline ==
    [][AwaitableReturned =>
          /\ qpc' = "spawned"
          /\ op' \in {"query", "execute"}
          /\ extract_params(qargs').ok
          /\ owned_params' = extract_params(qargs').val
          /\ statement' = None
          /\ bound' = None
          /\ rows' = None
          /\ qresult' = None]_vars

C16_Witness ==
    /\ qpc = "spawned"
    /\ op = "execute"
    /\ Len(qargs) = 1
    /\ Len(owned_params) = 1
    /\ statement = None
    /\ rows = None
    /\ qresult = None

Attached == {id \in Calls : calls[id].pc = "attached"}

\* The step in which call id builds the host values of its rows.
DecodesRows(id) == IsSome(calls[id].rows) /\ calls'[id].result # calls[id].result

\* C17: while connect() awaits the connection attempt its thread is detached
\* from the interpreter; a worker is attached only for the one call that is
\* decoding, never for a call that awaits its prepare or its execution; and
\* the host values of the rows are built by an attached worker.
C17_LockDiscipline ==
    /\ [](cpc = "runtime" => gil = "free")
    /\ [](gil = "worker" <=> Cardinality(Attached) = 1)
    /\ [](Cardinality(Attached) <= 1)
    /\ [](\A id \in Calls : calls[id].pc \in {"preparing", "executing"} => id \notin Attached)
    /\ [][\A id \in Calls : DecodesRows(id) => (gil = "worker" /\ Attached = {id})]_vars

\* One call has decoded its rows while the other awaits its execution.
C17_Witness ==
    /\ calls[1].pc = "resolved"
    /\ IsSome(calls[1].rows)
    /\ IsSome(calls[1].result)
    /\ calls[2].pc = "executing"
    /\ gil = "python"
    /\ cpc = "done"

(***************************************************************************)
(* Properties of the error conversion                                      *)
(***************************************************************************)
Converted == epc \in {"raised", "handled"}

\* C18: every OxpgError converts, and to the class of its kind:
\* MissingParameter, InvalidParameter, InvalidDsn to InterfaceError;
\* ConnectionFailed, RuntimeFailed to OperationalError; QueryFailed,
\* ExecutionError to DatabaseError; UnsupportedType, DataConversionError to
\* DataError; Unexpected to InternalError.
C18_KindToClass ==
    Converted =>
        LET k == Unwrap(oxerr).kind
            c == Unwrap(pyerr).class
        IN /\ IsSome(pyerr)
           /\ c \in ExceptionClasses
           /\ k \in {"MissingParameter", "InvalidParameter", "InvalidDsn"} <=> c = "InterfaceError"
           /\ k \in {"ConnectionFailed", "RuntimeFailed"} <=> c = "OperationalError"
           /\ k \in {"QueryFailed", "ExecutionError"} <=> c = "DatabaseError"
           /\ k \in {"UnsupportedType", "DataConversionError"} <=> c = "DataError"
           /\ k = "Unexpected" <=> c = "InternalError"
           /\ Unwrap(pyerr).msg = Unwrap(oxerr).text

C18_Witness ==
    /\ epc = "raised"
    /\ Unwrap(oxerr).kind = "Unexpected"
    /\ Unwrap(pyerr).class = "InternalError"

\* The four categories of the taxonomy, the kinds of each and the exception
\* class a caller tests for each.
Categories == {"configuration", "connection", "execution", "data"}

CategoryKinds(cat) ==
    CASE cat = "configuration" -> {"MissingParameter", "InvalidParameter", "InvalidDsn"}
      [] cat = "connection"    -> {"ConnectionFailed", "RuntimeFailed"}
      [] cat = "execution"     -> {"QueryFailed", "ExecutionError"}
      [] cat = "data"          -> {"UnsupportedType", "DataConversionError"}

CategoryClass(cat) ==
    CASE cat = "configuration" -> "InterfaceError"
      [] cat = "connection"    -> "OperationalError"
      [] cat = "execution"     -> "DatabaseError"
      [] cat = "data"          -> "DataError"

\* The caller tested an error of category cat against the class of other.
TestedAgainst(cat, other) ==
    /\ epc = "handled"
    /\ Unwrap(oxerr).kind \in CategoryKinds(cat)
    /\ handler = Some(CategoryClass(other))

\* C19 as stated: an error of one category is never an instance of the
\* exception class of another category.
C19_CategoriesExclusive ==
    \A cat \in Categories : \A other \in Categories \ {cat} :
        TestedAgainst(cat, other) => ~caught

\* C19 amended: an error of one category is an instance of the class of
\* another category only when it is a connection or a data error and the
\* other class is DatabaseError, the class of the execution category, from
\* which OperationalError and DataError derive.
C19_ExclusiveButForDatabaseError ==
    \A cat \in Categories : \A other \in Categories \ {cat} :
        TestedAgainst(cat, other) =>
            (caught <=> (other = "execution" /\ cat \in {"connection", "data"}))

C19_Witness ==
    /\ TestedAgainst("data", "execution")
    /\ Unwrap(pyerr).class = "DataError"
    /\ caught

(***************************************************************************)
(* Properties of extract_host_from_dsn                                     *)
(***************************************************************************)
\* connect() was called with a DSN alone and went through the match on dsn.
DsnExtracted ==
    /\ ConnCalled
    /\ IsSome(Unwrap(cargs).dsn)
    /\ ~DsnWithDiscrete(Unwrap(cargs))
    /\ cpc \notin {"idle", "validated"}

TheDsn == Unwrap(Unwrap(cargs).dsn)

\* What a DSN the driver parsed lacks.
Lacks(d) ==
    (IF d.hosts = << >> \/ d.hosts[1].kind # "Tcp" THEN {"host"} ELSE {})
    \cup (IF IsNone(d.user) THEN {"user"} ELSE {})
    \cup (IF IsNone(d.dbname) THEN {"database"} ELSE {})

\* C20: a DSN the driver parses but that lacks a user, a database name or a
\* TCP first host is rejected with MissingParameter naming what it lacks
\* ('user', 'database', 'host'); a DSN the driver does not parse is rejected
\* with InvalidDsn.
C20_DsnRejections ==
    DsnExtracted =>
        /\ TheDsn.parse = "err" =>
              /\ cpc = "failed"
              /\ Unwrap(cerr).kind = "InvalidDsn"
        /\ (TheDsn.parse = "ok" /\ Lacks(TheDsn) # {}) =>
              /\ cpc = "failed"
              /\ Unwrap(cerr).kind = "MissingParameter"
              /\ Unwrap(cerr).msg \in Lacks(TheDsn)
              /\ IsNone(config)
        /\ (TheDsn.parse = "ok" /\ Lacks(TheDsn) = {}) => IsSome(config)

C20_Witness ==
    /\ DsnExtracted
    /\ TheDsn.parse = "ok"
    /\ TheDsn.hosts # << >>
    /\ TheDsn.hosts[1].kind = "Unix"
    /\ IsSome(TheDsn.user)
    /\ cpc = "failed"
    /\ Unwrap(cerr).kind = "MissingParameter"
    /\ Unwrap(cerr).msg = "host"

(***************************************************************************)
(* Properties of the order of the steps of a call                          *)
(***************************************************************************)
\* How far a call is: each step moves it forward.
StepRank(pc) ==
    CASE pc = "idle" -> 0      [] pc = "raised" -> 1    [] pc = "spawned" -> 1
      [] pc = "prepared" -> 2  [] pc = "refined" -> 3   [] pc = "executed" -> 4
      [] pc = "attached" -> 5  [] pc = "resolved" -> 6

CallOver == qpc \in {"raised", "resolved"} /\ qpc' = "idle"

\* C21: within one call the steps run in the order extract, prepare,
\* refine, execute, decode, each at most once: refine only with the
\* statement of a prepare that succeeded, execute only after refine, decode
\* only with the rows of an execution that succeeded, and after a failure no
\* later step of the call runs.
C21_StepsInOrder ==
    /\ [](qpc \in {"prepared", "refined", "executed", "attached"} =>
             IsSome(statement) /\ IsNone(qresult))
    /\ [](qpc \in {"executed", "attached"} => IsSome(bound) /\ IsSome(rows))
    /\ [](qpc \in {"idle", "spawned", "raised"} =>
             IsNone(statement) /\ IsNone(bound) /\ IsNone(rows))
    /\ []((qpc = "resolved" /\ IsNone(statement)) => IsNone(bound) /\ IsNone(rows))
    /\ []((qpc = "resolved" /\ IsNone(rows) /\ op = "query") => ~Unwrap(qresult).ok)
    /\ [][(qpc' # qpc /\ ~CallOver) => StepRank(qpc') > StepRank(qpc)]_vars
    /\ [][(statement' # statement /\ ~CallOver) => qpc = "spawned"]_vars
    /\ [][(owned_params' # owned_params /\ ~CallOver) =>
              (qpc = "idle" \/ (qpc = "prepared" /\ qpc' = "refined"))]_vars
    /\ [][(bound' # bound /\ ~CallOver) => qpc = "refined"]_vars
    /\ [][(rows' # rows /\ ~CallOver) => qpc = "refined"]_vars
    /\ [][(qresult' # qresult /\ ~CallOver /\ IsSome(rows)) => qpc = "attached"]_vars
    /\ [][(qresult # None /\ ~CallOver) => UNCHANGED queryVars]_vars

\* A Query whose execution failed: it has its statement and no rows, and it
\* resolved with the error.
C21_Witness ==
    /\ op = "query"
    /\ qpc = "resolved"
    /\ IsSome(statement)
    /\ IsSome(bound)
    /\ IsNone(rows)
    /\ ~Unwrap(qresult).ok
    /\ Unwrap(qresult).err.detail = "division by zero"

\* The arguments of the running call cannot be extracted.
ExtractionFails == op # "none" /\ ~extract_params(qargs).ok

\* C22: when the extraction of the arguments fails in Query or Execute, the
\* error is raised to the caller and the call has issued no prepare and no
\* execute request.
C22_ExtractionFailureSendsNothing ==
    /\ ExtractionFails =>
          /\ qpc = "raised"
          /\ ~Unwrap(qresult).ok
          /\ Unwrap(qresult).err.kind \in {"UnsupportedType", "InvalidParameter"}
          /\ prepareReqs = 0
          /\ executeReqs = 0
          /\ IsNone(statement)
          /\ IsNone(bound)
    /\ qpc = "raised" => ExtractionFails

C22_Witness ==
    /\ op = "execute"
    /\ qpc = "raised"
    /\ Len(qargs) = 1
    /\ qargs[1].ty = "list"
    /\ Unwrap(qresult).err.kind = "UnsupportedType"
    /\ prepareReqs = 0

(***************************************************************************)
(* C23: the connection future is spawned before connect() returns, and its *)
(* failure is only logged.                                                 *)
(***************************************************************************)
\* The step in which the connection future ends with an error.
ConnectionFailure == connTask = "running" /\ connTask' = "failed"

\* A step in which some call obtains a statement or rows from the driver.
CallObtains ==
    \E id \in Calls :
        /\ calls'[id].pc \in {"prepared", "executed"}
        /\ calls'[id].pc # calls[id].pc

\* C23: a Client returned by connect() has exactly one connection future,
\* spawned on the one runtime connect() created; the failure of that future
\* happens only after it was spawned, writes one line to the log, and changes
\* neither the Client nor the outcome of connect() nor any call; once it
\* failed, no call obtains a statement or rows from the driver any more.
C23_ConnectionFailureOnlyLogged ==
    /\ [](cpc = "done" => /\ connTask # "none"
                          /\ connTasks = 1
                          /\ runtimesCreated = 1
                          /\ connTask # "dropped" => IsSome(client)
                          /\ cerr = None)
    /\ [](connTask # "none" => cpc = "done")
    /\ [][ConnectionFailure =>
            /\ logged' = logged + 1
            /\ client' = client
            /\ cerr' = cerr
            /\ cpc' = cpc
            /\ calls' = calls]_vars
    /\ [][logged' # logged => ConnectionFailure]_vars
    /\ [][connTask = "failed" => ~CallObtains]_vars

\* The connection future failed after connect() returned, the Client is as
\* connect() returned it, and a call made afterwards failed with the driver's
\* error while another one had resolved with its rows before.
C23_Witness ==
    /\ cpc = "done"
    /\ connTask = "failed"
    /\ logged = 1
    /\ IsSome(client)
    /\ cerr = None
    /\ calls[1].pc = "resolved"
    /\ IsSome(calls[1].result)
    /\ Unwrap(calls[1].result).ok
    /\ calls[2].pc = "resolved"
    /\ calls[2].statement = None
    /\ IsSome(calls[2].result)
    /\ ~Unwrap(calls[2].result).ok
    /\ Unwrap(calls[2].result).err.detail = "connection closed"

(***************************************************************************)
(* C24: what still runs once the Client was destroyed                      *)
(***************************************************************************)
\* The Client was destroyed.
Destroyed == cpc = "done" /\ client = None /\ connTask = "dropped"

\* A step of the future of some call: a prepare, an execute or the decoding.
CallStep == \E id \in Calls : calls'[id].pc # calls[id].pc

\* C24: once the Client was destroyed, no call issued on it takes a prepare,
\* execute or decode step any more.
C24_NoStepAfterDestruction ==
    [][Destroyed => ~CallStep]_vars

\* What the code does instead: the connection future is gone with the
\* Runtime, so no call obtains a statement or rows after the destruction, but
\* the futures of the calls go on to their end.
C24_NoAnswerAfterDestruction ==
    [][Destroyed => ~CallObtains /\ logged' = logged]_vars

\* A call that had its rows when the Client was destroyed decoded them
\* afterwards and resolved with them.
C24_Witness ==
    /\ Destroyed
    /\ calls[1].pc = "resolved"
    /\ IsSome(calls[1].result)
    /\ Unwrap(calls[1].result).ok
    /\ calls[2].pc = "resolved"
    /\ IsSome(calls[2].result)
    /\ ~Unwrap(calls[2].result).ok
    /\ Unwrap(calls[2].result).err.detail = "connection closed"

C25_WitnessConnect ==
    /\ cpc = "failed"
    /\ connectAttempts = 1
    /\ IsSome(cerr)
    /\ Unwrap(cerr).kind = "ConnectionFailed"

(***************************************************************************)
(* C26: the message of the exception for a DSN the driver cannot parse     *)
(***************************************************************************)
\* connect() has raised because the driver's parser rejected the DSN.
DsnParseRejected ==
    /\ cpc = "failed"
    /\ IsSome(cargs)
    /\ IsSome(Unwrap(cargs).dsn)
    /\ Unwrap(Unwrap(cargs).dsn).parse = "err"
    /\ LET a == Unwrap(cargs) IN validate_connect_params(a.dsn, a.host, a.user, a.password).ok
    /\ IsSome(cerr)

\* C26: when the driver's parser rejects the DSN, the message of the
\* exception raised contains the text "Invalid DSN".
C26_InvalidDsnInMessage ==
    DsnParseRejected => Contains(PyErrMessage(Unwrap(cerr)), DisplayPrefix("InvalidDsn"))

\* What the code does: the exception is an InterfaceError made from the
\* InvalidDsn variant, and its message is the driver's text alone; the
\* variant's own Display would have had the prefix.
C26_MessageIsDriverText ==
    DsnParseRejected =>
        /\ Unwrap(cerr).kind = "InvalidDsn"
        /\ Unwrap(cerr).class = "InterfaceError"
        /\ PyErrMessage(Unwrap(cerr)) = <<"InterfaceError", ": ", "<driver parse error>">>
        /\ Contains(Display(OxpgError("InvalidDsn", Unwrap(cerr).msg)), DisplayPrefix("InvalidDsn"))

C26_Witness == DsnParseRejected

(***************************************************************************)
(* C27: the order of the type tests of extract_params                      *)
(***************************************************************************)
\* The tests in the order the claim gives them: the classes each test looks
\* for, and the variant an argument that passes it becomes.
TestOrder ==
    << {"bool"}, {"int"}, {"float"}, {"str"}, {"NoneType"}, {"bytes", "bytearray"},
       {"datetime"}, {"date"}, {"time"}, {"timedelta"} >>

TestVariant ==
    << "Bool", "I64", "F64", "Text", "NullText", "Bytes", "TimestampTz", "Date", "Time", "Interval" >>

\* The tests the argument passes, by position in the order.
PassedTests(arg) == { t \in DOMAIN TestOrder : TestOrder[t] \cap PyInstanceOf(arg.ty) # {} }

FirstTest(arg) == CHOOSE t \in PassedTests(arg) : \A u \in PassedTests(arg) : t <= u

\* C27: every extracted argument has the variant of the first test it passes,
\* in the order bool, int, float, str, None, bytes/bytearray, datetime, date,
\* time, timedelta: a bool is never an integer, a datetime never a date; an
\* argument that passes no test is never given a variant, the call fails; and
\* a failure for an argument that passes a test is the failure of the
\* extraction of its first test.
C27_FirstMatchingTest ==
    ExtractCalled =>
        LET r == Unwrap(extracted) IN
        /\ r.ok =>
             /\ Len(r.val) = Len(pargs)
             /\ \A i \in DOMAIN pargs :
                  /\ PassedTests(pargs[i]) # {}
                  /\ r.val[i].tag = TestVariant[FirstTest(pargs[i])]
                  /\ pargs[i].ty = "bool" => r.val[i].tag # "I64"
                  /\ pargs[i].ty = "datetime" => r.val[i].tag # "Date"
        /\ (\E i \in DOMAIN pargs : PassedTests(pargs[i]) = {}) => ~r.ok
        /\ ~r.ok =>
             LET a == pargs[r.err.idx + 1] IN
             /\ r.err.kind = "UnsupportedType" <=> PassedTests(a) = {}
             /\ r.err.kind = "InvalidParameter" =>
                  /\ PassedTests(a) # {}
                  /\ r.err.msg = (CASE FirstTest(a) = 2 -> "Int arg"
                                    [] FirstTest(a) = 7 -> "DateTime arg"
                                    [] OTHER -> "")

\* A bool and a naive datetime were extracted together: Bool and TimestampTz,
\* though the bool also passes the int test and the datetime the date test.
C27_Witness ==
    /\ ExtractCalled
    /\ Len(pargs) = 2
    /\ pargs[1].ty = "bool"
    /\ pargs[2].ty = "datetime"
    /\ PassedTests(pargs[1]) = {1, 2}
    /\ PassedTests(pargs[2]) = {7, 8}
    /\ Unwrap(extracted).ok
    /\ Unwrap(extracted).val[1].tag = "Bool"
    /\ Unwrap(extracted).val[2].tag = "TimestampTz"

(***************************************************************************)
(* C28: every awaitable resolves, once                                     *)
(***************************************************************************)
\* The awaitable of the call was returned and has not resolved.
Pending == qpc \in {"spawned", "prepared", "refined", "executed", "attached"}

\* The awaitable has resolved, with a result or with an error.
Resolved == qpc = "resolved" /\ IsSome(qresult)

\* C28: with the future polled fairly and every request answered, the
\* awaitable of every query or execute call resolves, with a result or an
\* error, and once resolved its outcome is not written again: the next thing
\* that happens to the call is that the caller takes the outcome.
C28_AwaitableResolvesOnce ==
    /\ Pending ~> Resolved
    /\ [](Pending => qresult = None)
    /\ [][Resolved => (qpc' = "idle" /\ qresult' = None)]_vars
    /\ [][(qresult' # qresult /\ qresult' # None) => (qresult = None /\ qpc' \in {"raised", "resolved"})]_vars

\* An execute call has resolved with its count, and a query call before it
\* had resolved with an error.
C28_Witness ==
    /\ op = "execute"
    /\ Resolved
    /\ Unwrap(qresult).ok
    /\ prior = "failed"

(***************************************************************************)
(* C29: the two phases against the single pass                             *)
(***************************************************************************)
\* What the single pass binds for the argument at position i under the
\* declared type ty: the wire value, or the error of prepare_params or of the
\* bind.
SinglePass(i, ty) ==
    LET p == prepare_one(i - 1, pargs[i], ty) IN
    IF p.ok THEN boxed_to_sql(p.val, ty) ELSE Err(p.err.kind)

\* The declared types, and "" for a position the statement declares no type
\* for.
DeclaredOrNone == Types \cup {""}

\* C29: for every argument and declared type, extract_params followed by
\* refine_params binds the wire value the single pass binds, or fails with an
\* error of the same kind when the single pass fails.
C29_TwoPhaseAsSinglePass ==
    /\ ppc = "refined" =>
         \A i \in DOMAIN pargs :
             i <= Len(Declared) =>
                 LET two == to_sql(Unwrap(refined)[i], Declared[i])
                     one == SinglePass(i, Declared[i])
                 IN /\ one.ok = two.ok
                    /\ one.ok => one.val = two.val
    /\ ppc = "failed" =>
         LET i == Unwrap(extracted).err.idx + 1 IN
         \A ty \in DeclaredOrNone :
             LET p == prepare_one(i - 1, pargs[i], ty) IN
             /\ ~p.ok
             /\ p.err.kind = Unwrap(extracted).err.kind

\* The single pass refuses the argument at position i under its declared
\* type, or refuses to narrow it.
SinglePassRefuses(i) ==
    LET p == prepare_one(i - 1, pargs[i], Declared[i]) IN
    \/ ~p.ok
    \/ Declared[i] \notin BoxedAccepts(p.val.tag)

\* Where the two agree: whenever the extraction fails, and for every argument
\* the single pass binds.  Where the single pass refuses an argument that was
\* extracted, the two phases bind a value all the same.
C29_AgreeWhereSinglePassBinds ==
    /\ ppc = "refined" =>
         \A i \in DOMAIN pargs :
             i <= Len(Declared) =>
                 LET two == to_sql(Unwrap(refined)[i], Declared[i])
                     one == SinglePass(i, Declared[i])
                 IN /\ two.ok
                    /\ ~SinglePassRefuses(i) => (one.ok /\ one.val = two.val)
                    /\ SinglePassRefuses(i) => ~one.ok
    /\ ppc = "failed" =>
         LET i == Unwrap(extracted).err.idx + 1 IN
         \A ty \in DeclaredOrNone :
             LET p == prepare_one(i - 1, pargs[i], ty) IN
             /\ ~p.ok
             /\ p.err.kind = Unwrap(extracted).err.kind

(***************************************************************************)
(* C30: refine_params applied again, and to positions beyond the statement *)
(***************************************************************************)
\* The extracted parameters followed by themselves: a list with positions
\* beyond those the statement declares whenever it declares no more than
\* there are arguments.
Twice == Unwrap(extracted).val \o Unwrap(extracted).val

\* C30: refine_params applied to its own result under the same statement
\* changes nothing; its result has the length of the list it was given, each
\* position holding the parameter of that position or its rewrite; and a
\* position beyond the declared list holds the parameter unchanged, the call
\* having no way to fail.
C30_RefineIdempotentInPlace ==
    ppc = "refined" =>
        LET ps == Unwrap(extracted).val
            r == Unwrap(refined)
            rr == refine_params(Twice, Declared)
        IN /\ refine_params(r, Declared) = r
           /\ Len(r) = Len(ps)
           /\ DOMAIN r = DOMAIN ps
           /\ \A i \in DOMAIN ps :
                /\ i > Len(Declared) => r[i] = ps[i]
                /\ i <= Len(Declared) =>
                     \/ r[i] = ps[i]
                     \/ /\ InTable(ps[i].tag, Declared[i])
                        /\ r[i].tag # ps[i].tag
           /\ Len(rr) = 2 * Len(ps)
           /\ DOMAIN rr = DOMAIN Twice
           /\ \A i \in DOMAIN ps : rr[i] = r[i]
           /\ \A i \in DOMAIN Twice : i > Len(Declared) => rr[i] = Twice[i]
           /\ refine_params(rr, Declared) = rr

\* An integer under a parameter declared INT2 was narrowed; refined again it
\* is the same, and the same integer at a second position, which the
\* statement does not declare, is left as extracted.
C30_Witness ==
    /\ ppc = "refined"
    /\ Len(pargs) = 1
    /\ Declared = <<"INT2">>
    /\ Unwrap(extracted).val[1].tag = "I64"
    /\ Unwrap(refined)[1].tag = "I16"
    /\ refine_params(Unwrap(refined), Declared) = Unwrap(refined)
    /\ Len(refine_params(Twice, Declared)) = 2
    /\ refine_params(Twice, Declared)[1].tag = "I16"
    /\ refine_params(Twice, Declared)[2] = Unwrap(extracted).val[1]

====
